---- MODULE Spec2Model ----
(***************************************************************************)
(* bibliom: the row-caching table layer (DBTable) over the connection      *)
(* layer (DBManager), with the duplicate-resolution protocol of            *)
(* DBTable.insert_row, the entities (DBEntity) that view one cached row    *)
(* each, the manager's registry of table objects, and the codec of row     *)
(* keys on the characters of the key string.                               *)
(*                                                                         *)
(* Python values are modelled as tagged records (None, int, str), Python   *)
(* dicts as functions over the keys they hold, and a RowKey string         *)
(* "c1%%..%%v1%%.." as the sequence of the parts that the delimiter        *)
(* separates.  One DBTable object over one backend table is modelled; the  *)
(* table is `paper` (auto-increment primary key, one unique column, one    *)
(* plain column), `author` (auto-increment primary key, two unique         *)
(* columns) or `citation` (composite primary key, no generated key).       *)
(*                                                                         *)
(* The backend is taken to be MySQL as MySQLdb drives it: a unique index   *)
(* exempts only NULL, rowcount of an UPDATE counts the rows it changed,    *)
(* lastrowid is the generated or the explicitly inserted auto-increment    *)
(* value, and a missing NOT NULL primary-key value is an error.            *)
(***************************************************************************)
EXTENDS Integers, Sequences, FiniteSets, TLC

VARIABLES
    table_name,      \* DBTable.table_name: the backend table of this DBTable
    store,           \* the backend table's persisted rows
    auto_increment,  \* the backend table's AUTO_INCREMENT counter
    rows,            \* DBTable.rows: RowKey -> row dict
    rows_keys,       \* list(DBTable.rows.keys()): the dict's insertion order
    row_status,      \* DBTable.row_status: RowKey -> RowStatus
    next_key,        \* DBTable.next_key: counter of temporary keys
    handed_out,      \* history: the keys create_new_row has returned
    entites,         \* DBTable.entites: the table's registry of entities
    entities,        \* the DBEntity objects constructed so far
    dbtables,        \* DBManager.dbtables: table name -> DBTable object
    constructed,     \* number of DBTable objects constructed so far
    citation,        \* the backend's citation table: its persisted rows
    last,            \* the call whose result the caller is looking at
    steps            \* number of calls made so far

vars == <<table_name, store, auto_increment, rows, rows_keys, row_status,
          next_key, handed_out, entites, entities, dbtables, constructed,
          citation, last, steps>>

----------------------------------------------------------------------------
(* Bounds of the model *)

\* largest primary-key value the backend table may hold
MaxId == 2
\* largest number of temporary keys a DBTable hands out
MaxNew == 2
\* number of calls in one behaviour of Spec
MaxSteps == 4
\* number of inserts in one behaviour of SpecInsert
MaxInserts == 3
\* number of entities constructed in one behaviour of SpecEntity
MaxEntities == 2
\* largest integer and longest string among the key values given to the codec
MaxKeyInt == 11
MaxStrLen == 2
\* number of DBTable objects constructed in one behaviour of SpecRegistry
MaxTables == 4
MaxBulk == 2
MaxCalls == 2

----------------------------------------------------------------------------
(* Python values *)

None == [t |-> "none", n |-> 0, s |-> ""]
IntV(i) == [t |-> "int", n |-> i, s |-> ""]
StrV(x) == [t |-> "str", n |-> 0, s |-> x]

\* `if value:` -- None, 0 and "" are false
Truthy(v) == (v.t = "int" /\ v.n # 0) \/ (v.t = "str" /\ v.s # "")

Digits == <<"0", "1", "2", "3", "4", "5", "6", "7", "8", "9">>

\* str(i) of a non-negative int
RECURSIVE Str(_)
Str(i) == IF i < 10 THEN Digits[i + 1]
          ELSE Str(i \div 10) \o Digits[(i % 10) + 1]

\* str(value)
PyStr(v) == IF v.t = "int" THEN Str(v.n)
            ELSE IF v.t = "str" THEN v.s
            ELSE "None"

\* the ints the model can hold: generated keys, counters
IntRange == 0 .. (MaxId + MaxNew + 1)

\* try: int(s) / except ValueError: s
PyInt(s) == IF \E i \in IntRange : Str(i) = s
            THEN IntV(CHOOSE i \in IntRange : Str(i) = s)
            ELSE StrV(s)

\* dict.get(key): None when the key is absent
Get(d, f) == IF f \in DOMAIN d THEN d[f] ELSE None

\* the empty dict
EmptyDict == << >>

\* the dict d without key f
DictDel(d, f) == [g \in (DOMAIN d) \ {f} |-> d[g]]

\* the dict d with d[f] = v
DictSet(d, f, v) == (f :> v) @@ d

----------------------------------------------------------------------------
(* RowStatus and Duplicates *)

\* RowStatus.NEW (NEW is a reserved word)
STATUS_NEW == 0
SYNCED == 1
UNSYNCED == 2
DELETED == 3

SKIP == 1
INSERT == 2
OVERWRITE == 3
REPLACE == 4

NEW_ID_PREFIX == "db_table_new"

----------------------------------------------------------------------------
(* The backend schema, as DBManager.table_structure reports it *)

table_structure ==
    IF table_name = "paper"
    THEN [idpaper |-> [key |-> "PRI", extra |-> "auto_increment"],
          doi     |-> [key |-> "UNI", extra |-> ""],
          title   |-> [key |-> "",    extra |-> ""]]
    ELSE IF table_name = "author"
    THEN [idauthor |-> [key |-> "PRI", extra |-> "auto_increment"],
          orcid    |-> [key |-> "UNI", extra |-> ""],
          email    |-> [key |-> "UNI", extra |-> ""]]
    ELSE [source_id |-> [key |-> "PRI", extra |-> ""],
          target_id |-> [key |-> "PRI", extra |-> ""]]

\* DBManager.table_fields / DBTable.fields: the columns in schema order
fields == IF table_name = "paper" THEN <<"idpaper", "doi", "title">>
          ELSE IF table_name = "author" THEN <<"idauthor", "orcid", "email">>
          ELSE <<"source_id", "target_id">>

FieldSet == {fields[i] : i \in 1 .. Len(fields)}

primary_key_list == SelectSeq(fields, LAMBDA f : table_structure[f].key = "PRI")

PkSet == {f \in FieldSet : table_structure[f].key = "PRI"}

\* the auto-increment primary-key columns (at most one)
AutoFields == {f \in FieldSet : table_structure[f].key = "PRI"
                                 /\ table_structure[f].extra = "auto_increment"}

\* dict.items() order: a dict built over the schema's columns is walked in
\* the order of the schema
Items(d) == SelectSeq(fields, LAMBDA f : f \in DOMAIN d)

----------------------------------------------------------------------------
(* KeyCodec *)

\* DBTable.dict_to_key of the dict {c: d[c] for c in cols}
dict_to_key(cols, d) ==
    [i \in 1 .. Len(cols) |-> cols[i]] \o [i \in 1 .. Len(cols) |-> PyStr(d[cols[i]])]

\* DBTable.key_to_dict
key_to_dict(key) ==
    LET key_length == Len(key) \div 2
    IN  [c \in {key[i] : i \in 1 .. key_length} |->
            PyInt(key[key_length + (CHOOSE i \in 1 .. key_length : key[i] = c)])]

NoKey == << >>

\* The codec on the characters of the key string. A str is the sequence of
\* its characters here; a key_dict is the sequence of its items [col, val]
\* in the dict's order.
KEY_STR_DELIMITER == <<"%", "%">>

\* str(i) of a non-negative int
RECURSIVE CharsOf(_)
CharsOf(i) == IF i < 10 THEN <<Digits[i + 1]>>
              ELSE CharsOf(i \div 10) \o <<Digits[(i % 10) + 1]>>

\* str(i) for a value of the key dict
str_of(v) == IF v.t = "int" THEN CharsOf(v.n) ELSE v.s

\* KEY_STR_DELIMITER.join(parts)
RECURSIVE join(_)
join(parts) == IF parts = << >> THEN << >>
               ELSE IF Len(parts) = 1 THEN parts[1]
               ELSE parts[1] \o KEY_STR_DELIMITER \o join(Tail(parts))

\* the places of s where the delimiter stands
DelimiterAt(s) == {i \in 1 .. Len(s) - 1 : SubSeq(s, i, i + 1) = KEY_STR_DELIMITER}

\* s.split(KEY_STR_DELIMITER): the leftmost delimiter first
RECURSIVE split(_)
split(s) ==
    IF DelimiterAt(s) = {} THEN <<s>>
    ELSE LET i == CHOOSE j \in DelimiterAt(s) : \A k \in DelimiterAt(s) : j <= k
         IN  <<SubSeq(s, 1, i - 1)>> \o split(SubSeq(s, i + 2, Len(s)))

\* int(s) of a string of digits
RECURSIVE int_of(_)
int_of(s) ==
    IF s = << >> THEN 0
    ELSE 10 * int_of(SubSeq(s, 1, Len(s) - 1))
         + ((CHOOSE d \in 1 .. 10 : Digits[d] = s[Len(s)]) - 1)

\* the string kept as it is
kept_str(s) == StrV(s)

\* DBTable.key_to_dict, lines 93-96: try int(s), except ValueError keep s
int_or_str(s) ==
    IF s # << >> /\ \A i \in 1 .. Len(s) : \E d \in 1 .. 10 : Digits[d] = s[i]
    THEN IntV(int_of(s))
    ELSE StrV(s)

\* DBTable.dict_to_key, to the characters of the key
dict_to_key_str(key_dict) ==
    join([i \in 1 .. Len(key_dict) |-> key_dict[i].col])
    \o KEY_STR_DELIMITER
    \o join([i \in 1 .. Len(key_dict) |-> str_of(key_dict[i].val)])

\* DBTable.key_to_dict, lines 91-97: the dict of the keys and values split
\* from the key; a later item replaces an earlier one of the same column
dict_of(dict_keys, dict_values) ==
    [c \in {dict_keys[i] : i \in DOMAIN dict_keys} |->
        int_or_str(dict_values[CHOOSE i \in DOMAIN dict_keys :
                                  /\ dict_keys[i] = c
                                  /\ \A j \in DOMAIN dict_keys : dict_keys[j] = c => j <= i])]

\* lines 85-90: the split halves
key_list_to_dict(key_list, key_length) ==
    IF key_length = 0 \/ Len(key_list) # 2 * key_length
    THEN [exc |-> "ValueError", ret |-> EmptyDict]
    ELSE [exc |-> "",
          ret |-> dict_of(SubSeq(key_list, 1, key_length),
                          SubSeq(key_list, key_length + 1, Len(key_list)))]

\* DBTable.key_to_dict, from the characters of the key: [exc, ret]
split_to_dict(key_list) == key_list_to_dict(key_list, Len(key_list) \div 2)
key_str_to_dict(key) == split_to_dict(split(key))

IsTempKey(key) == key # NoKey /\ key[1] = NEW_ID_PREFIX

----------------------------------------------------------------------------
(* DBManager: the statements, on the persisted rows `st` *)

\* _query_params: the columns a statement names are those whose value is
\* not None
QueryCols(d) == {c \in DOMAIN d : d[c] # None}

\* _build_where with equality filters, joined by AND
Matches(row, where) == \A c \in DOMAIN where : where[c] # None /\ row[c] = where[c]

\* primary key and unique constraints hold in `st`
Consistent(st) ==
    \A r1, r2 \in st : r1 # r2 =>
        /\ \E f \in PkSet : r1[f] # r2[f]
        /\ \A f \in FieldSet : table_structure[f].key = "UNI" /\ r1[f] # None
                                  => r1[f] # r2[f]

\* primary-key order of two rows
RECURSIVE PkLess(_, _, _)
PkLess(r1, r2, i) ==
    IF i > Len(primary_key_list) THEN FALSE
    ELSE LET f == primary_key_list[i]
         IN  \/ r1[f].n < r2[f].n
             \/ r1[f].n = r2[f].n /\ PkLess(r1, r2, i + 1)

\* the rows of S in primary-key order, as a SELECT returns them
RECURSIVE SortedRows(_)
SortedRows(S) ==
    IF S = {} THEN << >>
    ELSE LET m == CHOOSE r \in S : \A o \in S \ {r} : PkLess(r, o, 1)
         IN  <<m>> \o SortedRows(S \ {m})

\* DBManager.fetch_rows
manager_fetch_rows(st, where_dict) ==
    IF where_dict = None THEN [exc |-> "", ret |-> SortedRows(st)]
    ELSE IF ~(DOMAIN where_dict \subseteq FieldSet)
    THEN [exc |-> "OperationalError", ret |-> << >>]
    ELSE [exc |-> "", ret |-> SortedRows({r \in st : Matches(r, where_dict)})]

\* DBManager.fetch_row: cursor.fetchone()
manager_fetch_row(st, where_dict) ==
    LET res == manager_fetch_rows(st, where_dict)
    IN  IF res.exc # "" THEN [exc |-> res.exc, ret |-> None]
        ELSE IF res.ret = << >> THEN [exc |-> "", ret |-> None]
        ELSE [exc |-> "", ret |-> res.ret[1]]

DUP == "IntegrityError(1062)"

\* DBManager.insert_row: [exc, ret (lastrowid, or -1), st, ai]
manager_insert_row(st, ai, row_dict) ==
    LET cols      == QueryCols(row_dict)
        newrow    == [f \in FieldSet |->
                         IF f \in AutoFields /\ ~Truthy(Get(row_dict, f))
                         THEN IntV(ai) ELSE Get(row_dict, f)]
        lastrowid == IF AutoFields = {} THEN 0
                     ELSE newrow[CHOOSE f \in AutoFields : TRUE].n
        newai     == IF lastrowid >= ai THEN lastrowid + 1 ELSE ai
        failed(e) == [exc |-> e, ret |-> 0, st |-> st, ai |-> ai]
    IN  IF row_dict = EmptyDict THEN failed("TypeError")
        ELSE IF ~(cols \subseteq FieldSet) THEN failed("OperationalError")
        ELSE IF \E f \in PkSet : newrow[f] = None THEN failed("OperationalError")
        ELSE IF newrow \in st \/ ~Consistent(st \cup {newrow}) THEN failed(DUP)
        ELSE [exc |-> "",
              ret |-> IF lastrowid = 0 THEN -1 ELSE lastrowid,
              st  |-> st \cup {newrow},
              ai  |-> newai]

\* DBManager.update_rows: [exc, ok (rowcount > 0), st]
manager_update_rows(st, row_dict, where_dict) ==
    LET setcols   == QueryCols(row_dict)
        matched   == {r \in st : Matches(r, where_dict)}
        upd(r)    == [f \in FieldSet |-> IF f \in setcols THEN row_dict[f] ELSE r[f]]
        newst     == (st \ matched) \cup {upd(r) : r \in matched}
        failed(e) == [exc |-> e, ok |-> FALSE, st |-> st]
    IN  IF row_dict = EmptyDict THEN failed("TypeError")
        ELSE IF setcols = {} THEN failed("ProgrammingError")
        ELSE IF ~(setcols \subseteq FieldSet /\ DOMAIN where_dict \subseteq FieldSet)
             THEN failed("OperationalError")
        ELSE IF Cardinality(newst) # Cardinality(st) \/ ~Consistent(newst)
             THEN failed(DUP)
        ELSE [exc |-> "", ok |-> \E r \in matched : upd(r) # r, st |-> newst]

\* DBManager.delete_rows: [exc, ok (rowcount > 0), st]; a backend error is
\* caught and answered with False
\* (err is the error the backend raised inside the call)
manager_delete_rows(st, where_dict) ==
    IF ~(DOMAIN where_dict \subseteq FieldSet)
    THEN [exc |-> "", ok |-> FALSE, st |-> st, err |-> "OperationalError"]
    ELSE [exc |-> "", ok |-> \E r \in st : Matches(r, where_dict),
          st |-> {r \in st : ~Matches(r, where_dict)}, err |-> ""]

\* DBManager.list_tables: the tables of the database
list_tables == {"paper", "author", "citation"}

\* DBManager.table_structure(table_name): [exc, ret, err]; a backend error is
\* printed and answered with an empty dict
manager_table_structure(name) ==
    IF name # table_name
    THEN [exc |-> "", ret |-> EmptyDict, err |-> "ProgrammingError"]
    ELSE [exc |-> "", ret |-> table_structure, err |-> ""]

\* DBManager.list_tables: [exc, ret, err]; gone when the server has gone
\* away. A backend error is printed and answered with False.
manager_list_tables(gone) ==
    IF gone THEN [exc |-> "", ret |-> FALSE, err |-> "OperationalError"]
    ELSE [exc |-> "", ret |-> list_tables, err |-> ""]

\* Max retries on database queries
MAX_DB_RETRIES == 5

\* the largest number of attempts for which the server refuses a connection
MaxRefusals == 6

\* MySQLdb.connect, made attempts having been made before: the server refuses
\* the first server.refused attempts (error 2003), and does not know the
\* database when server.unknown (error 1049)
MySQLdb_connect(server, made) ==
    IF made < server.refused THEN 2003
    ELSE IF server.unknown THEN 1049
    ELSE 0

\* the except branch of _connect for the backend's error code e
connect_failed(e, attempts) ==
    [exc |-> IF e = 1049 THEN "UnknownDatabaseError" ELSE "OperationalError",
     db |-> "None", attempts |-> attempts,
     err |-> "OperationalError"]

\* the single attempt of _connect
connect_once(server, made) ==
    LET e == MySQLdb_connect(server, made) IN
    IF e = 0 THEN [exc |-> "", db |-> "open", attempts |-> made + 1, err |-> ""]
    ELSE connect_failed(e, made + 1)

\* DBManager._connect: [exc, db (self.db), attempts (the calls of
\* MySQLdb.connect), err]; without user, password and name nothing is tried
manager_connect(credentials, server) ==
    IF ~credentials
    THEN [exc |-> "", db |-> "None", attempts |-> 0, err |-> ""]
    ELSE connect_once(server, 0)

\* A dict whose order of keys matters is a sequence of records [col, val].
\* dict.get(col)
Lookup(od, col) ==
    IF \E i \in DOMAIN od : od[i].col = col
    THEN od[CHOOSE i \in DOMAIN od : od[i].col = col].val
    ELSE None

\* dict[col] = v: in place when the key is there, at the end when it is new
Assign(od, col, v) ==
    IF \E i \in DOMAIN od : od[i].col = col
    THEN [i \in DOMAIN od |-> IF od[i].col = col THEN [col |-> col, val |-> v]
                              ELSE od[i]]
    ELSE Append(od, [col |-> col, val |-> v])

\* the dict d over columns of the schema, in the order of the schema
Pairs(d) == [i \in 1 .. Len(Items(d)) |-> [col |-> Items(d)[i], val |-> d[Items(d)[i]]]]

\* DBManager.insert_many_rows, lines 528-540: the auto-increment primary key
\* of the table, "" when it has none
pri_key_field ==
    IF AutoFields = {} THEN ""
    ELSE fields[CHOOSE i \in DOMAIN fields :
                   /\ fields[i] \in AutoFields
                   /\ \A j \in 1 .. i - 1 : fields[j] \notin AutoFields]

\* DBManager.insert_many_rows, lines 542-547: the rows from the i-th on, the
\* next free value of the counter being c
RECURSIVE keys_assigned(_, _, _)
keys_assigned(row_dict_list, i, c) ==
    IF i > Len(row_dict_list) THEN << >>
    ELSE IF Lookup(row_dict_list[i], pri_key_field) # None
    THEN <<row_dict_list[i]>> \o keys_assigned(row_dict_list, i + 1, c)
    ELSE <<Assign(row_dict_list[i], pri_key_field, IntV(c))>>
             \o keys_assigned(row_dict_list, i + 1, c + 1)

\* DBManager.insert_many_rows, lines 542-547, every row given its own value
\* of the counter whether or not it carries a key
keys_overwritten(row_dict_list, ai) ==
    IF pri_key_field = "" THEN row_dict_list
    ELSE [i \in DOMAIN row_dict_list |->
             Assign(row_dict_list[i], pri_key_field, IntV(ai + i - 1))]

\* DBManager.insert_many_rows, lines 542-547
keys_filled(row_dict_list, ai) ==
    IF pri_key_field = "" THEN row_dict_list
    ELSE keys_assigned(row_dict_list, 1, ai)

\* the value v as the column f stores it: an integer column takes a numeric
\* string, a string column takes the digits of an integer; -1 stands for a
\* value the column rejects (strict mode)
Rejected == [t |-> "int", n |-> -1, s |-> ""]
stored_as(f, v) ==
    IF v = None THEN None
    ELSE IF table_structure[f].key = "PRI"
    THEN IF v.t = "int" THEN v
         ELSE IF PyInt(v.s).t = "int" THEN PyInt(v.s) ELSE Rejected
    ELSE IF v.t = "int" THEN StrV(Str(v.n)) ELSE v

\* one row of cursor.executemany: the i-th parameter goes to the i-th column
\* of the statement
row_of_params(cols, params) ==
    [f \in FieldSet |->
        IF \E i \in DOMAIN cols : cols[i] = f
        THEN stored_as(f, params[CHOOSE i \in DOMAIN cols : cols[i] = f])
        ELSE None]

\* the backend runs the INSERT for the rows from the i-th on, inside the
\* open transaction: [exc, st]
RECURSIVE rows_applied(_, _, _)
rows_applied(st, newrows, i) ==
    IF i > Len(newrows) THEN [exc |-> "", st |-> st]
    ELSE IF \E f \in FieldSet : newrows[i][f] = Rejected
    THEN [exc |-> "OperationalError", st |-> st]
    ELSE IF \E f \in PkSet : newrows[i][f] = None
    THEN [exc |-> "OperationalError", st |-> st]
    ELSE IF newrows[i] \in st \/ ~Consistent(st \cup {newrows[i]})
    THEN [exc |-> DUP, st |-> st]
    ELSE rows_applied(st \cup {newrows[i]}, newrows, i + 1)

\* DBManager.insert_many_rows, line 568, left out: what the transaction has
\* reached stays
rollback_skipped(before, reached) == reached

\* DBManager.insert_many_rows, line 568: self.db.rollback()
rollback(before, reached) == before

\* DBManager.insert_many_rows, lines 562-569: the backend has answered the
\* statement with applied
many_committed(st, ai, applied, newrows, row_dict_list) ==
    LET ids == {newrows[i][pri_key_field].n : i \in DOMAIN newrows}
        top == CHOOSE n \in ids : \A k \in ids : k <= n
    IN  IF applied.exc # ""
        THEN [exc |-> applied.exc, ret |-> << >>, st |-> rollback(st, applied.st),
              ai |-> ai, given |-> row_dict_list]
        ELSE [exc |-> "", ret |-> row_dict_list, st |-> applied.st,
              ai |-> IF pri_key_field # "" /\ top >= ai THEN top + 1 ELSE ai,
              given |-> row_dict_list]

\* DBManager.insert_many_rows, lines 560-569: executemany of the statement
\* over the columns cols with the parameter lists rows_lists. A parameter
\* list that does not fit the placeholders fails in the driver's string
\* formatting before anything is sent.
executemany(st, ai, cols, rows_lists, row_dict_list) ==
    IF \E i \in DOMAIN rows_lists : Len(rows_lists[i]) # Len(cols)
    THEN [exc |-> "TypeError", ret |-> << >>, st |-> st, ai |-> ai,
          given |-> row_dict_list]
    ELSE IF \E i \in DOMAIN cols : cols[i] \notin FieldSet
    THEN [exc |-> "OperationalError", ret |-> << >>, st |-> st, ai |-> ai,
          given |-> row_dict_list]
    ELSE many_committed(st, ai,
                        rows_applied(st, [i \in DOMAIN rows_lists |->
                                             row_of_params(cols, rows_lists[i])], 1),
                        [i \in DOMAIN rows_lists |-> row_of_params(cols, rows_lists[i])],
                        row_dict_list)

\* DBManager.insert_many_rows, lines 549-559: the statement is built from the
\* first row's columns that hold a value, and each row's parameters are its
\* values that are true
rows_sent(st, ai, row_dict_list) ==
    LET first == SelectSeq(row_dict_list[1], LAMBDA p : p.val # None)
    IN  IF row_dict_list[1] = << >>
        THEN [exc |-> "TypeError", ret |-> << >>, st |-> st, ai |-> ai,
              given |-> row_dict_list]
        ELSE executemany(st, ai, [i \in DOMAIN first |-> first[i].col],
                         [i \in DOMAIN row_dict_list |->
                             LET kept == SelectSeq(row_dict_list[i],
                                                   LAMBDA p : Truthy(p.val))
                             IN  [j \in DOMAIN kept |-> kept[j].val]],
                         row_dict_list)

\* DBManager.insert_many_rows: [exc, ret (the rows returned), st, ai, given
\* (the caller's dicts as the call leaves them)]; row_dict_list[0] of an empty
\* list raises IndexError, which the method turns into TypeError
manager_insert_many_rows(st, ai, row_dict_list) ==
    IF row_dict_list = << >>
    THEN [exc |-> "TypeError", ret |-> << >>, st |-> st, ai |-> ai,
          given |-> row_dict_list]
    ELSE rows_sent(st, ai, keys_filled(row_dict_list, ai))

----------------------------------------------------------------------------
(* DBTable, on a record w of the backend and the table object's fields:    *)
(* [store, auto_increment, rows, rows_keys, row_status, next_key,          *)
(* handed_out, log]. log is the sequence of backend statements the running *)
(* call has issued.                                                        *)

\* self.rows[k] = row
RowsSet(w, k, row) ==
    [w EXCEPT !.rows = DictSet(@, k, row),
              !.rows_keys = IF k \in DOMAIN w.rows THEN @ ELSE Append(@, k)]

\* del self.rows[k]
RowsDel(w, k) ==
    [w EXCEPT !.rows = DictDel(@, k),
              !.rows_keys = SelectSeq(@, LAMBDA x : x # k)]

\* self.row_status[k] = s
StatusSet(w, k, s) == [w EXCEPT !.row_status = DictSet(@, k, s)]

Log(w, q, d, where_dict) ==
    [w EXCEPT !.log = Append(@, [q |-> q, d |-> d, w |-> where_dict])]

\* the backend and the cache on entry of the invocation that returns or raises
Entry(w) == [store |-> w.store, auto_increment |-> w.auto_increment,
             rows |-> w.rows, row_status |-> w.row_status]

\* the loop of DBTable.fetch_rows over the fetched rows
RECURSIVE CacheFetched(_, _, _, _, _)
CacheFetched(w, rs, i, overwrite, rows_dict) ==
    IF i > Len(rs) THEN [w |-> w, exc |-> "", ret |-> rows_dict]
    ELSE LET key_str == dict_to_key(primary_key_list, rs[i])
         IN  IF overwrite \/ key_str \notin DOMAIN w.rows
             THEN CacheFetched(StatusSet(RowsSet(w, key_str, rs[i]), key_str, SYNCED),
                               rs, i + 1, overwrite, Append(rows_dict, key_str))
             ELSE CacheFetched(w, rs, i + 1, overwrite, rows_dict)

\* DBTable.fetch_rows once the manager has answered with res; first with
\* every fetched row cached, whatever overwrite says
fetch_rows_overwriting(w, res, overwrite) ==
    IF res.exc # "" THEN [w |-> w, exc |-> res.exc, ret |-> << >>]
    ELSE CacheFetched(w, res.ret, 1, TRUE, << >>)

fetch_rows_cached(w, res, overwrite) ==
    IF res.exc # "" THEN [w |-> w, exc |-> res.exc, ret |-> << >>]
    ELSE CacheFetched(w, res.ret, 1, overwrite, << >>)

\* DBTable.fetch_rows: [w, exc, ret (the keys of the returned mapping)]
fetch_rows(w, where_dict, overwrite) ==
    fetch_rows_cached(Log(w, "SELECT", EmptyDict, where_dict),
                      manager_fetch_rows(w.store, where_dict), overwrite)

\* DBTable.get_row_by_key once the manager has answered with res
get_row_fetched(w, row_key, res) ==
    IF res.exc # "" THEN [w |-> w, exc |-> res.exc, ret |-> None]
    ELSE [w |-> RowsSet(w, row_key, res.ret), exc |-> "", ret |-> res.ret]

\* DBTable.get_row_by_key: [w, exc, ret (the row)]
get_row_by_key(w, row_key) ==
    IF row_key \in DOMAIN w.rows THEN [w |-> w, exc |-> "", ret |-> w.rows[row_key]]
    ELSE get_row_fetched(Log(w, "SELECT", EmptyDict, key_to_dict(row_key)), row_key,
                         manager_fetch_row(w.store, key_to_dict(row_key)))

\* the table object and backend after the manager's answer res to a statement
Answered(w, res) ==
    [w |-> [w EXCEPT !.store = res.st], exc |-> res.exc, ret |-> res.ok]

\* DBTable.update_row: [w, exc, ret (the manager's answer)]
update_row(w, row_key, row_dict) ==
    Answered(Log(w, "UPDATE", row_dict, key_to_dict(row_key)),
             manager_update_rows(w.store, row_dict, key_to_dict(row_key)))

\* DBTable.delete_row: [w, exc, ret (the manager's answer)]
delete_row(w, row_key) ==
    Answered(Log(StatusSet(w, row_key, DELETED), "DELETE", EmptyDict, key_to_dict(row_key)),
             manager_delete_rows(w.store, key_to_dict(row_key)))

\* the dict d restricted to the keys in S
Restrict(d, S) == [f \in S |-> d[f]]

\* results of DBTable.insert_row: [w, exc, ret, row_dict, dups, entry].
\* row_dict is the caller's dict as the call leaves it, dups the duplicate
\* rows the call resolved (key and fetched row), entry the backend and the
\* cache on entry of the invocation that returned or raised.
Returned(w, key, row_dict, entry) ==
    [w |-> w, exc |-> "", ret |-> key, row_dict |-> row_dict, dups |-> << >>,
     entry |-> entry]

Raised(w, e, row_dict, entry) ==
    [w |-> w, exc |-> e, ret |-> NoKey, row_dict |-> row_dict, dups |-> << >>,
     entry |-> entry]

\* DBTable.insert_row, lines 273-282: the non-empty primary-key values of the
\* new data, and its non-empty unique-constrained values in the dict's order
pkey_dict(row_dict) ==
    Restrict(row_dict, {f \in DOMAIN row_dict :
                           Truthy(row_dict[f]) /\ table_structure[f].key = "PRI"})

unique_cols(row_dict) ==
    SelectSeq(Items(row_dict),
              LAMBDA f : Truthy(row_dict[f]) /\ table_structure[f].key = "UNI")

unique_dict_list(row_dict) ==
    [i \in 1 .. Len(unique_cols(row_dict)) |->
        (unique_cols(row_dict)[i] :> row_dict[unique_cols(row_dict)[i]])]

\* lines 283-284: old_row fetched by the primary-key values, if any
fetch_by_pkey(w, pkey) ==
    IF pkey # EmptyDict THEN fetch_rows(w, pkey, TRUE)
    ELSE [w |-> w, exc |-> "", ret |-> << >>]

\* lines 285-289: the loop over unique_dict_list, old_row being what has
\* been fetched so far
RECURSIVE fetch_first_unique(_, _, _)
fetch_first_unique(old_row, uniques, i) ==
    IF old_row.exc # "" \/ old_row.ret # << >> \/ i > Len(uniques) THEN old_row
    ELSE fetch_first_unique(fetch_rows(old_row.w, uniques[i], TRUE), uniques, i + 1)

\* the lookup of the duplicate with the unique columns tried before the
\* primary key
find_duplicate_unique_first(w, row_dict) ==
    fetch_first_unique(
        fetch_first_unique([w |-> w, exc |-> "", ret |-> << >>],
                           unique_dict_list(row_dict), 1),
        IF pkey_dict(row_dict) # EmptyDict THEN <<pkey_dict(row_dict)>> ELSE << >>, 1)

\* the lookup of the duplicate with empty values looked up as well
find_duplicate_empty_too(w, row_dict) ==
    fetch_first_unique(
        fetch_by_pkey(w, Restrict(row_dict, {f \in DOMAIN row_dict :
                             row_dict[f] # None /\ table_structure[f].key = "PRI"})),
        [i \in 1 .. Len(SelectSeq(Items(row_dict),
                           LAMBDA f : row_dict[f] # None /\ table_structure[f].key = "UNI"))
            |-> LET f == SelectSeq(Items(row_dict),
                           LAMBDA g : row_dict[g] # None /\ table_structure[g].key = "UNI")[i]
                IN  (f :> row_dict[f])],
        1)

\* DBTable.insert_row, lines 271-289: the existing row behind a duplicate
\* signal, [w, exc, ret (keys of old_row)]
find_duplicate(w, row_dict) ==
    fetch_first_unique(fetch_by_pkey(w, pkey_dict(row_dict)),
                       unique_dict_list(row_dict), 1)

\* the new data OVERWRITE would write with its empty values kept
overwrite_every_value(row_dict) == row_dict

\* DBTable.insert_row, lines 308-310: OVERWRITE drops the empty values of the
\* new data
overwrite_dict(row_dict) ==
    Restrict(row_dict, {f \in DOMAIN row_dict : Truthy(row_dict[f])})

\* DBTable.insert_row, lines 318-320: INSERT drops the empty values of the new
\* data and the values for fields the old row has
insert_dict(row_dict, old_row) ==
    Restrict(row_dict, {f \in DOMAIN row_dict :
                           Truthy(row_dict[f]) /\ ~Truthy(old_row[f])})

\* the duplicate's key returned with the cache left as the lookup filled it
duplicate_left_as_fetched(u, duplicate_key, row_dict, entry) ==
    IF u.exc # "" THEN Raised(u.w, u.exc, row_dict, entry)
    ELSE Returned(u.w, duplicate_key, row_dict, entry)

\* lines 311-315 and 321-325: after update_row has answered with u
duplicate_updated(u, duplicate_key, row_dict, entry) ==
    IF u.exc # "" THEN Raised(u.w, u.exc, row_dict, entry)
    ELSE IF u.ret
    THEN Returned(RowsSet(StatusSet(u.w, duplicate_key, SYNCED),
                          duplicate_key, row_dict @@ u.w.rows[duplicate_key]),
                  duplicate_key, row_dict, entry)
    ELSE Returned(u.w, duplicate_key, row_dict, entry)

update_duplicate(w, duplicate_key, row_dict, entry) ==
    duplicate_updated(update_row(w, duplicate_key, row_dict), duplicate_key,
                      row_dict, entry)

\* the inserted row cached as the dict the caller gave
cache_as_given(w, key, row_dict, entry) ==
    Returned(StatusSet(RowsSet(w, key, row_dict), key, SYNCED), key, row_dict, entry)

\* DBTable.insert_row, lines 343-347: the inserted row is cached with every
\* field of the table, SYNCED, and its key returned
cache_inserted(w, key, row_dict, entry) ==
    Returned(StatusSet(RowsSet(w, key, [f \in FieldSet |-> Get(row_dict, f)]),
                       key, SYNCED),
             key, row_dict, entry)

\* lines 328-347: the backend has inserted the row and answered new_pri_key
row_inserted(w, new_pri_key, row_dict, entry) ==
    IF new_pri_key > 0 /\ Len(primary_key_list) = 1
    THEN cache_inserted(w, dict_to_key(primary_key_list,
                                       (primary_key_list[1] :> IntV(new_pri_key))),
                        DictSet(row_dict, primary_key_list[1], IntV(new_pri_key)), entry)
    ELSE IF new_pri_key = -1
    THEN cache_inserted(w, dict_to_key(primary_key_list, row_dict), row_dict, entry)
    ELSE Raised(w, "BiblioException", row_dict, entry)

\* the result res of resolving the duplicate dup
Resolving(dup, res) == [res EXCEPT !.dups = <<dup>> \o @]

RECURSIVE insert_row(_, _, _)

\* lines 302-327: the policy applied to the duplicate row
apply_policy(w, duplicate_key, row_dict, duplicates, entry) ==
    Resolving([key |-> duplicate_key, row |-> w.rows[duplicate_key]],
        IF duplicates = SKIP THEN Returned(w, duplicate_key, row_dict, entry)
        ELSE IF duplicates = REPLACE
        THEN insert_row(delete_row(w, duplicate_key).w, row_dict, duplicates)
        ELSE IF duplicates = OVERWRITE
        THEN update_duplicate(w, duplicate_key, overwrite_dict(row_dict), entry)
        ELSE IF duplicates = INSERT
        THEN update_duplicate(w, duplicate_key,
                              insert_dict(row_dict, get_row_by_key(w, duplicate_key).ret),
                              entry)
        ELSE Raised(w, "AttributeError", row_dict, entry))

\* lines 290-301: old_row has been looked up
duplicate_found(old_row, row_dict, duplicates, entry) ==
    IF old_row.exc # "" THEN Raised(old_row.w, old_row.exc, row_dict, entry)
    ELSE IF Len(old_row.ret) # 1
    THEN Raised(old_row.w, "DBIntegrityError", row_dict, entry)
    ELSE apply_policy(old_row.w, old_row.ret[1], row_dict, duplicates, entry)

\* lines 262-347: the manager has answered the insert with ins
insert_answered(w, ins, row_dict, duplicates, entry) ==
    IF ins.exc = DUP
    THEN duplicate_found(find_duplicate(w, row_dict), row_dict, duplicates, entry)
    ELSE IF ins.exc # "" THEN Raised(w, ins.exc, row_dict, entry)
    ELSE row_inserted([w EXCEPT !.store = ins.st, !.auto_increment = ins.ai],
                      ins.ret, row_dict, entry)

\* DBTable.insert_row
insert_row(w, row_dict, duplicates) ==
    insert_answered(Log(w, "INSERT", row_dict, EmptyDict),
                    manager_insert_row(w.store, w.auto_increment, row_dict),
                    row_dict, duplicates, Entry(w))

\* One invocation of insert_row under REPLACE, up to the point where it
\* returns, raises or calls itself again: [done, w, exc, ret]. refused is the
\* backend's answer to the delete: the statement fails or removes nothing.
Finished(res) == [done |-> TRUE, w |-> res.w, exc |-> res.exc, ret |-> res.ret]
Reentered(w) == [done |-> FALSE, w |-> w, exc |-> "", ret |-> NoKey]

\* DBManager.delete_rows when the backend refuses the statement: the error is
\* caught, the transaction rolled back and False returned
manager_delete_refused(st) ==
    [exc |-> "", ok |-> FALSE, st |-> st, err |-> "OperationalError"]

\* DBTable.delete_row with a delete the backend refuses
delete_row_refused(w, row_key) ==
    Answered(Log(StatusSet(w, row_key, DELETED), "DELETE", EmptyDict, key_to_dict(row_key)),
             manager_delete_refused(w.store))

\* lines 304-306: delete_row(duplicate_key), whose answer is not looked at,
\* and the call of insert_row again
replace_duplicate(w, duplicate_key, refused) ==
    Reentered(IF refused THEN delete_row_refused(w, duplicate_key).w
              ELSE delete_row(w, duplicate_key).w)

\* lines 290-306: old_row has been looked up
replace_found(old_row, row_dict, entry, refused) ==
    IF old_row.exc # "" \/ Len(old_row.ret) # 1
    THEN Finished(duplicate_found(old_row, row_dict, REPLACE, entry))
    ELSE replace_duplicate(old_row.w, old_row.ret[1], refused)

\* lines 262-347: the manager has answered the insert with ins
replace_answered(w, ins, row_dict, entry, refused) ==
    IF ins.exc = DUP THEN replace_found(find_duplicate(w, row_dict), row_dict, entry, refused)
    ELSE Finished(insert_answered(w, ins, row_dict, REPLACE, entry))

insert_row_replace(w, row_dict, refused) ==
    replace_answered(Log(w, "INSERT", row_dict, EmptyDict),
                     manager_insert_row(w.store, w.auto_increment, row_dict),
                     row_dict, Entry(w), refused)

\* DBTable.create_new_row: [w, exc, ret]
row_staged(w, row_key, row) ==
    [w |-> [StatusSet(RowsSet(w, row_key, row), row_key, STATUS_NEW)
               EXCEPT !.handed_out = @ \cup {row_key}],
     exc |-> "", ret |-> row_key]

\* a row staged under the key of the counter, the counter left as it is
create_new_row_counter_kept(w, fields_dict) ==
    row_staged(w, <<NEW_ID_PREFIX, Str(w.next_key)>>, [f \in FieldSet |-> None])

create_new_row(w, fields_dict) ==
    IF fields_dict = None
    THEN row_staged([w EXCEPT !.next_key = @ + 1], <<NEW_ID_PREFIX, Str(w.next_key)>>,
                    [f \in FieldSet |-> None])
    ELSE IF \E key \in DOMAIN fields_dict : key \notin FieldSet
    THEN [w |-> [w EXCEPT !.next_key = @ + 1], exc |-> "ValueError", ret |-> NoKey]
    ELSE row_staged([w EXCEPT !.next_key = @ + 1], <<NEW_ID_PREFIX, Str(w.next_key)>>,
                    [f \in FieldSet |-> Get(fields_dict, f)])

\* DBTable.set_field once the value is written: [w, exc, ret]; first with
\* the status of the row left as it is
field_written_status_kept(w, row_key) ==
    IF row_key \notin DOMAIN w.row_status
    THEN [w |-> w, exc |-> "KeyError", ret |-> None]
    ELSE [w |-> w, exc |-> "", ret |-> None]

field_written(w, row_key) ==
    IF row_key \notin DOMAIN w.row_status
    THEN [w |-> w, exc |-> "KeyError", ret |-> None]
    ELSE IF w.row_status[row_key] = SYNCED
    THEN [w |-> StatusSet(w, row_key, UNSYNCED), exc |-> "", ret |-> None]
    ELSE [w |-> w, exc |-> "", ret |-> None]

\* DBTable.set_field: [w, exc, ret]
set_field(w, row_key, field_name, field_value) ==
    IF row_key \notin DOMAIN w.rows \/ w.rows[row_key] = None
    THEN [w |-> w, exc |-> "ValueError", ret |-> None]
    ELSE field_written(RowsSet(w, row_key,
                               DictSet(w.rows[row_key], field_name, field_value)),
                       row_key)

\* the dict with the keys and values of the pairs od
FromPairs(od) == [c \in {od[i].col : i \in DOMAIN od} |-> Lookup(od, c)]

\* DBTable.insert_many_new_rows, lines 356-357: the keys of the NEW rows, in
\* the order create_new_row entered them in row_status
new_keys(w) ==
    LET key(i) == <<NEW_ID_PREFIX, Str(i)>>
        held   == {i \in 0 .. w.next_key :
                      key(i) \in DOMAIN w.row_status /\ w.row_status[key(i)] = STATUS_NEW}
        nth[n \in 0 .. Cardinality(held)] ==
            IF n = 0 THEN -1 ELSE CHOOSE i \in held : /\ i > nth[n - 1]
                                                      /\ \A j \in held : j > nth[n - 1] => i <= j
    IN  [n \in 1 .. Cardinality(held) |-> key(nth[n])]

\* DBTable.insert_many_new_rows, lines 360-362: the NEW keys from the i-th on
\* leave row_status and rows
RECURSIVE new_keys_deleted(_, _, _)
new_keys_deleted(w, keys, i) ==
    IF i > Len(keys) THEN [w |-> w, exc |-> "", ret |-> None]
    ELSE IF keys[i] \notin DOMAIN w.rows
    THEN [w |-> [w EXCEPT !.row_status = DictDel(@, keys[i])],
          exc |-> "KeyError", ret |-> None]
    ELSE new_keys_deleted(RowsDel([w EXCEPT !.row_status = DictDel(@, keys[i])],
                                  keys[i]),
                          keys, i + 1)

\* DBTable.insert_many_new_rows, lines 363-370: the rows from the i-th on
\* enter the cache under the keys of their primary keys
RECURSIVE updated_rows_cached(_, _, _)
updated_rows_cached(w, updated_rows, i) ==
    IF i > Len(updated_rows) THEN [w |-> w, exc |-> "", ret |-> TRUE]
    ELSE updated_rows_cached(
             StatusSet(RowsSet(w, dict_to_key(primary_key_list,
                                              FromPairs(updated_rows[i])),
                               FromPairs(updated_rows[i])),
                       dict_to_key(primary_key_list, FromPairs(updated_rows[i])),
                       SYNCED),
             updated_rows, i + 1)

\* DBTable.insert_many_new_rows, lines 360-371, once the NEW keys are deleted
new_rows_recached(deleted, updated_rows) ==
    IF deleted.exc # "" THEN deleted
    ELSE updated_rows_cached(deleted.w, updated_rows, 1)

\* the cached rows under the keys cached are the dicts the manager was given:
\* what it wrote into them is in the cache
given_back(w, cached, given) ==
    [w EXCEPT !.rows = [k \in DOMAIN w.rows |->
                           IF \E i \in DOMAIN cached : cached[i] = k
                           THEN FromPairs(given[CHOOSE i \in DOMAIN cached : cached[i] = k])
                           ELSE w.rows[k]]]

\* DBTable.insert_many_new_rows, lines 358-372: the manager has answered with
\* res to the rows cached under the keys cached
many_inserted(w, keys, cached, res) ==
    IF res.exc # ""
    THEN [w |-> given_back(w, cached, res.given), exc |-> res.exc, ret |-> None]
    ELSE new_rows_recached(
             new_keys_deleted(
                 given_back([w EXCEPT !.store = res.st, !.auto_increment = res.ai],
                            cached, res.given),
                 keys, 1),
             res.ret)

\* DBTable.insert_many_new_rows, lines 356-358: the NEW rows that are cached
many_new_rows(w, keys, cached) ==
    many_inserted(Log(w, "INSERT", EmptyDict, EmptyDict), keys, cached,
                  manager_insert_many_rows(w.store, w.auto_increment,
                                           [i \in DOMAIN cached |->
                                               Pairs(w.rows[cached[i]])]))

\* DBTable.insert_many_new_rows: [w, exc, ret]
insert_many_new_rows(w) ==
    many_new_rows(w, new_keys(w),
                  SelectSeq(w.rows_keys,
                            LAMBDA k : \E i \in DOMAIN new_keys(w) : new_keys(w)[i] = k))

RECURSIVE sync_loop(_, _, _, _)

\* DBTable.sync_to_db, lines 479-481: insert_row has answered with ins for
\* the NEW row row_keys[count]
sync_inserted(ins, row_keys, count) ==
    IF ins.exc # "" THEN [w |-> ins.w, exc |-> ins.exc, ret |-> NoKey]
    ELSE sync_loop(RowsDel(StatusSet(ins.w, ins.ret, SYNCED), row_keys[count]),
                   row_keys, count + 1, ins.ret)

\* lines 482-488: the manager has answered the update of the UNSYNCED row
\* row_keys[count] with res
sync_updated(res, row_keys, count, new_row_key) ==
    IF res.exc # "" THEN [w |-> res.w, exc |-> res.exc, ret |-> NoKey]
    ELSE IF res.ret
    THEN sync_loop(StatusSet(res.w, row_keys[count], SYNCED), row_keys, count + 1,
                   new_row_key)
    ELSE [w |-> res.w, exc |-> "BiblioException", ret |-> NoKey]

\* the loop of DBTable.sync_to_db over row_keys: [w, exc, ret (new_row_key)]
sync_loop(w, row_keys, count, new_row_key) ==
    IF count > Len(row_keys) THEN [w |-> w, exc |-> "", ret |-> new_row_key]
    ELSE IF row_keys[count] \notin DOMAIN w.row_status
    THEN [w |-> w, exc |-> "KeyError", ret |-> NoKey]
    ELSE IF w.row_status[row_keys[count]] = DELETED
    THEN [w |-> w, exc |-> "", ret |-> new_row_key]
    ELSE IF w.row_status[row_keys[count]] = STATUS_NEW
    THEN sync_inserted(insert_row(w, w.rows[row_keys[count]], SKIP), row_keys, count)
    ELSE IF w.row_status[row_keys[count]] = UNSYNCED
    THEN sync_updated(
             Answered(Log(w, "UPDATE", w.rows[row_keys[count]], key_to_dict(row_keys[count])),
                      manager_update_rows(w.store, w.rows[row_keys[count]],
                                          key_to_dict(row_keys[count]))),
             row_keys, count, new_row_key)
    ELSE sync_loop(w, row_keys, count + 1, new_row_key)

\* DBTable.sync_to_db
sync_to_db(w) == sync_loop(w, w.rows_keys, 1, NoKey)

----------------------------------------------------------------------------
(* The manager's registry of table objects, on a record m of                *)
(* DBManager.dbtables and the number of DBTable objects constructed. A      *)
(* DBTable object is the number of its construction. Results are            *)
(* [m, exc, ret].                                                           *)

\* get_table_object's answer for a table the database does not have: False
NoTable == 0

\* a DBTable constructed and registered whatever the registry holds
DBTable_unchecked(m, name) ==
    [m |-> [dbtables |-> DictSet(m.dbtables, name, m.constructed + 1),
            constructed |-> m.constructed + 1],
     exc |-> "", ret |-> m.constructed + 1]

\* DBTable.__init__
DBTable(m, name) ==
    IF name \in DOMAIN m.dbtables
    THEN [m |-> m, exc |-> "BiblioException", ret |-> NoTable]
    ELSE [m |-> [dbtables |-> DictSet(m.dbtables, name, m.constructed + 1),
                 constructed |-> m.constructed + 1],
          exc |-> "", ret |-> m.constructed + 1]

\* DBTable.get_table_object
get_table_object(m, name) ==
    IF name \in DOMAIN m.dbtables
    THEN [m |-> m, exc |-> "", ret |-> m.dbtables[name]]
    ELSE IF name \in list_tables THEN DBTable(m, name)
    ELSE [m |-> m, exc |-> "", ret |-> NoTable]

\* DBManager.reset_database, for the registry: self.dbtables = {}
reset_database(m) ==
    [m |-> [m EXCEPT !.dbtables = EmptyDict], exc |-> "", ret |-> NoTable]

----------------------------------------------------------------------------
(* DBEntity, on the record w and a record e of the entity's attributes:     *)
(* [row_key, protect_fields, attrs]. attrs holds the instance attributes    *)
(* that are not fields of the table. Results are [w, e, exc, ret].          *)

EntityResult(w, e, exc, ret) == [w |-> w, e |-> e, exc |-> exc, ret |-> ret]

\* the result res of a call on the table, as the result of the entity's method
OfTable(e, res) == EntityResult(res.w, e, res.exc, res.ret)

\* DBEntity.get_field once the table has answered with the row
field_got(e, row, field_name) ==
    IF row.exc # "" THEN OfTable(e, row)
    ELSE IF row.ret = None THEN EntityResult(row.w, e, "AttributeError", None)
    ELSE EntityResult(row.w, e, "", Get(row.ret, field_name))

\* DBEntity.get_field
get_field(w, e, field_name) == field_got(e, get_row_by_key(w, e.row_key), field_name)

\* DBEntity.set_field
entity_set_field(w, e, field_name, field_value) ==
    IF field_name \notin FieldSet THEN EntityResult(w, e, "ValueError", None)
    ELSE OfTable(e, set_field(w, e.row_key, field_name, field_value))

\* DBEntity.__setattr__, lines 63-65: the field has been read with got
protected_write(e, got, attr_name, value) ==
    IF got.exc # "" THEN got
    ELSE IF got.ret # None THEN EntityResult(got.w, e, "", None)
    ELSE entity_set_field(got.w, e, attr_name, value)

\* DBEntity.__setattr__
setattr(w, e, attr_name, value) ==
    IF attr_name \in FieldSet
    THEN IF e.protect_fields
         THEN protected_write(e, get_field(w, e, attr_name), attr_name, value)
         ELSE entity_set_field(w, e, attr_name, value)
    ELSE IF attr_name = "protect_fields"
    THEN EntityResult(w, [e EXCEPT !.protect_fields = value], "", None)
    ELSE EntityResult(w, [e EXCEPT !.attrs = DictSet(@, attr_name, value)], "", None)

\* the keys whose cached dict a call of insert_row has replaced by a new one
Recached(res) == {res.dups[i].key : i \in DOMAIN res.dups} \cup {res.ret}

\* DBEntity.save_to_db, lines 212-213: insert_row was given the cached dict
\* of the entity's row and has answered with res. What insert_row did to its
\* argument it did to that cached dict, unless the cache holds a new dict
\* under the key by now.
row_saved(e, fields_dict, res) ==
    LET w == IF /\ res.row_dict # fields_dict
                /\ e.row_key \in DOMAIN res.w.rows
                /\ e.row_key \notin Recached(res)
             THEN RowsSet(res.w, e.row_key, res.row_dict)
             ELSE res.w
    IN  IF res.exc # "" THEN EntityResult(w, e, res.exc, None)
        ELSE EntityResult(w, [e EXCEPT !.row_key = res.ret], "", None)

\* DBEntity.save_to_db once the fields_dict property has answered
fields_saved(e, row, duplicates) ==
    IF row.exc # "" THEN OfTable(e, row)
    ELSE IF row.ret = None THEN EntityResult(row.w, e, "TypeError", None)
    ELSE row_saved(e, row.ret, insert_row(row.w, row.ret, duplicates))

\* DBEntity.save_to_db
save_to_db(w, e, duplicates) ==
    fields_saved(e, get_row_by_key(w, e.row_key), duplicates)

\* DBEntity.delete_from_db
delete_from_db(w, e) ==
    IF e.row_key \notin DOMAIN w.row_status THEN EntityResult(w, e, "KeyError", None)
    ELSE IF w.row_status[e.row_key] = STATUS_NEW
    THEN EntityResult(w, e, "DBUnsyncedError", None)
    ELSE OfTable(e, delete_row(w, e.row_key))

\* DBEntity.undelete
undelete(w, e, duplicates) ==
    IF e.row_key \notin DOMAIN w.row_status THEN EntityResult(w, e, "KeyError", None)
    ELSE IF w.row_status[e.row_key] # DELETED
    THEN EntityResult(w, e, "DBIntegrityError", None)
    ELSE save_to_db(StatusSet(w, e.row_key, UNSYNCED), e, duplicates)

\* DBEntity.append, line 189, with every field taken whatever self holds
takes_always(field, overwrite) == TRUE

\* DBEntity.append, line 189: the field of self is open to other's value
takes(field, overwrite) == field = None \/ overwrite

RECURSIVE append_loop(_, _, _, _, _, _)

\* DBEntity.append, line 190: self.set_field has answered with written
append_written(written, a, b, overwrite, keys, i) ==
    IF written.exc # "" THEN written
    ELSE append_loop(written.w, a, b, overwrite, keys, i + 1)

\* DBEntity.append, lines 189-190: other.get_field(key) has answered with got
append_got(got, a, b, overwrite, keys, i) ==
    IF got.exc # "" THEN EntityResult(got.w, a, got.exc, None)
    ELSE IF got.ret = None THEN append_loop(got.w, a, b, overwrite, keys, i + 1)
    ELSE append_written(entity_set_field(got.w, a, keys[i], got.ret),
                        a, b, overwrite, keys, i)

\* DBEntity.append, lines 188-190: the loop from the i-th key of self's row
append_loop(w, a, b, overwrite, keys, i) ==
    IF i > Len(keys) THEN EntityResult(w, a, "", None)
    ELSE IF takes(Get(w.rows[a.row_key], keys[i]), overwrite)
    THEN append_got(get_field(w, b, keys[i]), a, b, overwrite, keys, i)
    ELSE append_loop(w, a, b, overwrite, keys, i + 1)

\* DBEntity.append once the fields_dict property of self has answered
append_fields(row, a, b, overwrite) ==
    IF row.exc # "" THEN OfTable(a, row)
    ELSE IF row.ret = None THEN EntityResult(row.w, a, "AttributeError", None)
    ELSE append_loop(row.w, a, b, overwrite,
                     SelectSeq(fields, LAMBDA f : f \in DOMAIN row.ret), 1)

\* DBEntity.append(other, overwrite); other is None when the caller passes
\* something that is no DBEntity
append(w, a, b, overwrite) ==
    IF b = None THEN EntityResult(w, a, "TypeError", None)
    ELSE append_fields(get_row_by_key(w, a.row_key), a, b, overwrite)

\* the attributes of an entity of the row row_key
Entity(row_key, protect_fields) ==
    [row_key |-> row_key, protect_fields |-> protect_fields, attrs |-> EmptyDict]

\* DBEntity.__init__, lines 44-49: an entity of the row row_key; the loop
\* over fields_dict unpacks each field name into two variables
entity_of_row(row, row_key, fields_dict, protect_fields) ==
    IF row.exc # "" THEN OfTable(Entity(row_key, protect_fields), row)
    ELSE IF fields_dict # None /\ fields_dict # EmptyDict
    THEN EntityResult(row.w, Entity(row_key, protect_fields), "ValueError", None)
    ELSE EntityResult(row.w, Entity(row_key, protect_fields), "", None)

\* DBEntity.__init__, line 51: an entity of a new row
entity_of_new_row(created, protect_fields) ==
    EntityResult(created.w, Entity(created.ret, protect_fields), created.exc, None)

\* DBEntity.__init__ for a table object; row_key is NoKey when none is given
new_entity(w, row_key, fields_dict, protect_fields) ==
    IF row_key # NoKey
    THEN entity_of_row(get_row_by_key(w, row_key), row_key, fields_dict, protect_fields)
    ELSE entity_of_new_row(create_new_row(w, fields_dict), protect_fields)

\* DBEntity.__init__, lines 53-54: the table's registry once the entity
\* number n is constructed with the argument row_key
registered(reg, e, row_key, n) ==
    IF e.row_key \notin DOMAIN reg THEN DictSet(reg, row_key, n) ELSE reg

----------------------------------------------------------------------------
(* The calls a client makes on the table object, one action per method *)

\* the table object and its backend, as a call finds them
World == [store |-> store, auto_increment |-> auto_increment, rows |-> rows,
          rows_keys |-> rows_keys, row_status |-> row_status,
          next_key |-> next_key, handed_out |-> handed_out, log |-> << >>]

\* the generated keys and the temporary-key counter stay within the bounds
InBounds(w) ==
    /\ \A r \in w.store : \A f \in PkSet : r[f].n <= MaxId
    /\ w.next_key <= MaxNew

\* the backend and the table object as a call leaves them
Stored(w) ==
    /\ InBounds(w)
    /\ store' = w.store
    /\ auto_increment' = w.auto_increment
    /\ rows' = w.rows
    /\ rows_keys' = w.rows_keys
    /\ row_status' = w.row_status
    /\ next_key' = w.next_key
    /\ handed_out' = w.handed_out
    /\ UNCHANGED <<table_name, citation, dbtables, constructed>>

\* ... a call of a method of the table object
Commit(w) ==
    /\ Stored(w)
    /\ UNCHANGED <<entites, entities>>

\* no call to look at
NoCall == [op |-> ""]

\* the record of a call: its arguments, what it returned or raised, the
\* statements it issued, and the table object and backend as it found them
Call(op, args, res) ==
    [op |-> op, args |-> args, exc |-> res.exc, ret |-> res.ret, res |-> res,
     log |-> res.w.log, pre |-> World]

\* a call is made once the caller has taken the result of the one before
CanCall == last = NoCall /\ steps < MaxSteps

Called(call) ==
    /\ steps' = steps + 1
    /\ last' = call

\* the values a caller of insert_row gives a column: no value, and for a
\* key column the keys up to MaxId, for a unique column "" and a text, for a
\* plain column "" and two texts
IdVals == {None} \cup {IntV(i) : i \in 1 .. MaxId}
ColVals(f) == IF table_structure[f].key = "PRI" THEN IdVals
              ELSE IF table_structure[f].key = "UNI" THEN {None, StrV(""), StrV("x")}
              ELSE {None, StrV(""), StrV("x"), StrV("y")}

\* a caller's dict: the columns the caller has a value for
Supplied(d) == Restrict(d, {f \in DOMAIN d : d[f] # None})

\* the dicts a caller of insert_row passes: every choice of columns and values
RowInputs ==
    IF table_name = "paper"
    THEN {Supplied([idpaper |-> a, doi |-> b, title |-> c]) :
             a \in ColVals("idpaper"), b \in ColVals("doi"), c \in ColVals("title")}
    ELSE IF table_name = "author"
    THEN {Supplied([idauthor |-> a, orcid |-> b, email |-> c]) :
             a \in ColVals("idauthor"), b \in ColVals("orcid"), c \in ColVals("email")}
    ELSE {Supplied([source_id |-> a, target_id |-> b]) :
             a \in ColVals("source_id"), b \in ColVals("target_id")}

\* the dicts a caller stages and inserts in the life of a table object
StagedInputs ==
    IF table_name = "paper"
    THEN {Supplied([idpaper |-> None, doi |-> b, title |-> c]) :
             b \in {None, StrV(""), StrV("x")}, c \in {None, StrV("x")}}
         \cup {[idpaper |-> IntV(1), title |-> StrV("y")]}
    ELSE IF table_name = "author"
    THEN {Supplied([orcid |-> b, email |-> c]) :
             b \in {None, StrV("x")}, c \in {None, StrV("x")}}
    ELSE {Supplied([source_id |-> IntV(1), target_id |-> b]) : b \in IdVals}

\* the values a caller of set_field writes
WrittenVals(f) == IF table_structure[f].key = "PRI" THEN {IntV(MaxId)}
                  ELSE IF table_structure[f].key = "UNI" THEN {None, StrV("x")}
                  ELSE {None, StrV("x"), StrV("y")}

\* the filters a caller passes: no filter, or one column with a value
WhereInputs == {None} \cup {(f :> v) : f \in FieldSet, v \in {StrV("x"), IntV(1)}}

InsertRow(row_dict, duplicates) ==
    /\ CanCall
    /\ LET res == insert_row(World, row_dict, duplicates) IN
       /\ Commit(res.w)
       /\ Called(Call("insert_row", [row_dict |-> row_dict, duplicates |-> duplicates], res))

CreateNewRow(fields_dict) ==
    /\ CanCall
    /\ LET res == create_new_row(World, fields_dict) IN
       /\ Commit(res.w)
       /\ Called(Call("create_new_row", [fields_dict |-> fields_dict], res))

SetField(row_key, field_name, field_value) ==
    /\ CanCall
    /\ LET res == set_field(World, row_key, field_name, field_value) IN
       /\ Commit(res.w)
       /\ Called(Call("set_field", [row_key |-> row_key, field_name |-> field_name,
                                 field_value |-> field_value], res))

SyncToDb ==
    /\ CanCall
    /\ LET res == sync_to_db(World) IN
       /\ Commit(res.w)
       /\ Called(Call("sync_to_db", EmptyDict, res))

InsertManyNewRows ==
    /\ CanCall
    /\ LET res == insert_many_new_rows(World) IN
       /\ Commit(res.w)
       /\ Called(Call("insert_many_new_rows", EmptyDict, res))

DeleteRow(row_key) ==
    /\ CanCall
    /\ LET res == delete_row(World, row_key) IN
       /\ Commit(res.w)
       /\ Called(Call("delete_row", [row_key |-> row_key], res))

FetchRows(where_dict, overwrite) ==
    /\ CanCall
    /\ LET res == fetch_rows(World, where_dict, overwrite) IN
       /\ Commit(res.w)
       /\ Called(Call("fetch_rows", [where_dict |-> where_dict, overwrite |-> overwrite], res))

\* the caller, holding the result of an insert_row, passes the same fields
\* again under the same policy: the dict the first call has left
\* (same_dict), or a dict equal to the one the first call was given
InsertRowAgain(same_dict) ==
    /\ last # NoCall
    /\ last.op = "insert_row"
    /\ "first" \notin DOMAIN last
    /\ steps < MaxSteps
    /\ LET row_dict == IF same_dict THEN last.res.row_dict ELSE last.args.row_dict
           res      == insert_row(World, row_dict, last.args.duplicates)
       IN  /\ Commit(res.w)
           /\ Called([first |-> [exc |-> last.exc, ret |-> last.ret]]
                     @@ Call("insert_row", [row_dict |-> row_dict,
                                            duplicates |-> last.args.duplicates], res))

\* the values a caller writes to an attribute of an entity
AttrVals(f) == IF f \in FieldSet THEN WrittenVals(f)
               ELSE IF f = "protect_fields" THEN BOOLEAN
               ELSE {StrV("x")}

\* the names a caller writes to: the fields and a name that is no field
AttrNames == FieldSet \cup {"tile"}

\* the dicts a caller constructs an entity with
EntityInputs == StagedInputs \cup {None, [tile |-> StrV("x")]}

\* the result of a method of the entity number n
EntityCalled(n, res) ==
    /\ Stored(res.w)
    /\ entities' = [entities EXCEPT ![n] = res.e]
    /\ UNCHANGED entites

\* DBEntity(table, row_key=row_key, fields_dict=fields_dict,
\* protect_fields=protect_fields)
NewEntity(row_key, fields_dict, protect_fields) ==
    /\ CanCall
    /\ Len(entities) < MaxEntities
    /\ LET res == new_entity(World, row_key, fields_dict, protect_fields) IN
       /\ Stored(res.w)
       /\ entities' = IF res.exc = "" THEN Append(entities, res.e) ELSE entities
       /\ entites' = IF res.exc = ""
                     THEN registered(entites, res.e, row_key, Len(entities) + 1)
                     ELSE entites
       /\ Called(Call("DBEntity", [row_key |-> row_key, fields_dict |-> fields_dict,
                                   protect_fields |-> protect_fields], res))

EntitySetField(n, field_name, field_value) ==
    /\ CanCall
    /\ LET res == entity_set_field(World, entities[n], field_name, field_value) IN
       /\ EntityCalled(n, res)
       /\ Called(Call("DBEntity.set_field",
                      [e |-> entities[n], field_name |-> field_name,
                       field_value |-> field_value], res))

EntitySetAttr(n, attr_name, value) ==
    /\ CanCall
    /\ LET res == setattr(World, entities[n], attr_name, value) IN
       /\ EntityCalled(n, res)
       /\ Called(Call("DBEntity.__setattr__",
                      [e |-> entities[n], attr_name |-> attr_name, value |-> value],
                      res))

EntitySaveToDb(n, duplicates) ==
    /\ CanCall
    /\ LET res == save_to_db(World, entities[n], duplicates) IN
       /\ EntityCalled(n, res)
       /\ Called(Call("DBEntity.save_to_db",
                      [e |-> entities[n], duplicates |-> duplicates], res))

EntityDeleteFromDb(n) ==
    /\ CanCall
    /\ LET res == delete_from_db(World, entities[n]) IN
       /\ EntityCalled(n, res)
       /\ Called(Call("DBEntity.delete_from_db", [e |-> entities[n]], res))

EntityUndelete(n, duplicates) ==
    /\ CanCall
    /\ LET res == undelete(World, entities[n], duplicates) IN
       /\ EntityCalled(n, res)
       /\ Called(Call("DBEntity.undelete",
                      [e |-> entities[n], duplicates |-> duplicates], res))

\* entity number n .append(other, overwrite), other the entity number m, or
\* a plain dict when m is 0
EntityAppend(n, m, overwrite) ==
    /\ CanCall
    /\ LET other == IF m = 0 THEN None ELSE entities[m]
           res == append(World, entities[n], other, overwrite) IN
       /\ EntityCalled(n, res)
       /\ Called(Call("DBEntity.append",
                      [e |-> entities[n], other |-> other, overwrite |-> overwrite],
                      res))

\* the characters and the strings of the key values given to the codec
Alphabet == {"a", "1", "%"}
Strings == UNION {[1 .. n -> Alphabet] : n \in 0 .. MaxStrLen}

\* the values of a primary-key mapping: integers and strings
KeyVals == {IntV(i) : i \in 0 .. MaxKeyInt} \cup {StrV(x) : x \in Strings}

\* the primary-key mappings given to the codec: one column, or two
KeyDicts ==
    {<<[col |-> <<"k">>, val |-> v]>> : v \in KeyVals}
    \cup {<<[col |-> <<"k">>, val |-> v], [col |-> <<"j">>, val |-> u]>> :
             v \in KeyVals, u \in KeyVals}

\* DBTable.dict_to_key(key_dict) for the mapping the caller holds
DictToKey ==
    /\ last.op = "key_dict"
    /\ last' = [op |-> "dict_to_key", key_dict |-> last.key_dict,
                ret |-> dict_to_key_str(last.key_dict)]
    /\ UNCHANGED <<table_name, citation, store, auto_increment, rows, rows_keys, row_status,
                   next_key, handed_out, entites, entities, dbtables, constructed,
                   steps>>

\* DBTable.key_to_dict(key) for the key dict_to_key returned
KeyToDict ==
    /\ last.op = "dict_to_key"
    /\ LET res == key_str_to_dict(last.ret) IN
       last' = [op |-> "key_to_dict", key_dict |-> last.key_dict, key |-> last.ret,
                exc |-> res.exc, ret |-> res.ret]
    /\ UNCHANGED <<table_name, citation, store, auto_increment, rows, rows_keys, row_status,
                   next_key, handed_out, entites, entities, dbtables, constructed,
                   steps>>

\* the manager's registry
Manager == [dbtables |-> dbtables, constructed |-> constructed]

\* the names a caller asks a table object for: the tables of the database
\* and a name that is none
TableNames == list_tables \cup {"nosuch"}

\* a call on the registry: its result, and the registry as it found it
RegistryCalled(op, name, res) ==
    /\ last = NoCall
    /\ res.m.constructed <= MaxTables
    /\ dbtables' = res.m.dbtables
    /\ constructed' = res.m.constructed
    /\ last' = [op |-> op, name |-> name, exc |-> res.exc, ret |-> res.ret,
                pre |-> Manager]
    /\ UNCHANGED <<table_name, citation, store, auto_increment, rows, rows_keys, row_status,
                   next_key, handed_out, entites, entities, steps>>

\* DBTable(name, manager)
NewDBTable(name) == RegistryCalled("DBTable", name, DBTable(Manager, name))

\* DBTable.get_table_object(name, manager)
GetTableObject(name) ==
    RegistryCalled("get_table_object", name, get_table_object(Manager, name))

\* manager.reset_database()
ResetDatabase == RegistryCalled("reset_database", "", reset_database(Manager))

\* the caller takes the result of the call
Return ==
    /\ last # NoCall
    /\ last' = NoCall
    /\ UNCHANGED <<table_name, citation, store, auto_increment, rows, rows_keys, row_status,
                   next_key, handed_out, entites, entities, dbtables, constructed,
                   steps>>

Init ==
    /\ table_name \in {"paper", "author", "citation"}
    /\ store = {}
    /\ auto_increment = 1
    /\ rows = EmptyDict
    /\ rows_keys = << >>
    /\ row_status = EmptyDict
    /\ next_key = 0
    /\ handed_out = {}
    /\ entites = EmptyDict
    /\ entities = << >>
    /\ dbtables = (table_name :> 1)
    /\ constructed = 1
    /\ citation = {}
    /\ last = NoCall
    /\ steps = 0

\* the life of a table object: rows are staged, inserted, written, synced,
\* deleted and fetched
Next ==
    \/ \E d \in StagedInputs : InsertRow(d, SKIP)
    \/ \E d \in StagedInputs \cup {None, [tile |-> StrV("x")]} : CreateNewRow(d)
    \/ \E k \in DOMAIN rows \cup {<<NEW_ID_PREFIX, Str(MaxNew)>>}, f \in FieldSet :
          \E v \in WrittenVals(f) : SetField(k, f, v)
    \/ SyncToDb
    \/ InsertManyNewRows
    \/ \E k \in DOMAIN rows : DeleteRow(k)
    \/ \E wd \in WhereInputs, o \in BOOLEAN : FetchRows(wd, o)
    \/ Return

Spec == Init /\ [][Next]_vars

\* the duplicate-resolution protocol: inserts of every dict under every policy
NextInsert ==
    \/ \E d \in RowInputs, p \in {SKIP, INSERT, OVERWRITE, REPLACE} :
          steps < MaxInserts /\ InsertRow(d, p)
    \/ \E b \in BOOLEAN : steps < MaxInserts /\ InsertRowAgain(b)
    \/ Return

SpecInsert == Init /\ [][NextInsert]_vars

\* the most invocations of insert_row a call under REPLACE is followed for
MaxReentries == 3

\* insert_row under REPLACE is running: an invocation is about to begin
Running == "running" \in DOMAIN last /\ last.running

\* table.insert_row(row_dict, REPLACE) is called
ReplaceCalled(row_dict) ==
    /\ CanCall
    /\ Called([op |-> "insert_row", args |-> [row_dict |-> row_dict, duplicates |-> REPLACE],
               running |-> TRUE, reentries |-> 0, exc |-> "", ret |-> NoKey,
               pre |-> World])
    /\ UNCHANGED <<table_name, citation, store, auto_increment, rows, rows_keys,
                   row_status, next_key, handed_out, entites, entities, dbtables,
                   constructed>>

\* the invocation of insert_row runs: it returns, raises, or deletes the
\* duplicate and calls insert_row again
ReplaceInvoked(refused) ==
    /\ Running
    /\ last.reentries < MaxReentries
    /\ LET res == insert_row_replace(World, last.args.row_dict, refused) IN
       /\ Commit(res.w)
       /\ last' = [last EXCEPT !.running = ~res.done,
                               !.reentries = IF res.done THEN @ ELSE @ + 1,
                               !.exc = res.exc, !.ret = res.ret]
    /\ UNCHANGED steps

\* inserts fill a table, then one call of insert_row under REPLACE is
\* followed invocation by invocation, with a backend that may refuse a delete
NextReplace ==
    \/ \E d \in StagedInputs : steps < MaxInserts /\ InsertRow(d, SKIP)
    \/ \E d \in RowInputs : ReplaceCalled(d)
    \/ \E refused \in BOOLEAN : ReplaceInvoked(refused)
    \/ "reentries" \notin DOMAIN last /\ Return

SpecReplace == Init /\ [][NextReplace]_vars

\* the life of the entities of a table: entities are constructed, written,
\* saved, deleted and restored, and the table is written, synced and deleted
\* from under them
NextEntity ==
    \/ \E d \in EntityInputs, p \in BOOLEAN : NewEntity(NoKey, d, p)
    \/ \E k \in DOMAIN rows, d \in {None, [title |-> StrV("x")]}, p \in BOOLEAN :
          NewEntity(k, d, p)
    \/ \E n \in DOMAIN entities, f \in AttrNames :
          \E v \in AttrVals(f) : EntitySetField(n, f, v)
    \/ \E n \in DOMAIN entities, f \in AttrNames \cup {"protect_fields"} :
          \E v \in AttrVals(f) : EntitySetAttr(n, f, v)
    \/ \E n \in DOMAIN entities, p \in {SKIP, INSERT, OVERWRITE, REPLACE} :
          EntitySaveToDb(n, p)
    \/ \E n \in DOMAIN entities : EntityDeleteFromDb(n)
    \/ \E n \in DOMAIN entities, p \in {SKIP, OVERWRITE} : EntityUndelete(n, p)
    \/ \E n \in DOMAIN entities, m \in {0} \cup DOMAIN entities, o \in BOOLEAN :
          EntityAppend(n, m, o)
    \/ \E k \in DOMAIN rows, f \in FieldSet :
          \E v \in WrittenVals(f) : SetField(k, f, v)
    \/ \E k \in DOMAIN rows : DeleteRow(k)
    \/ SyncToDb
    \/ Return

SpecEntity == Init /\ [][NextEntity]_vars

----------------------------------------------------------------------------
(* Paper and Citation: the papers a paper cites and is cited by. The       *)
(* table object is the one of the paper table; the citation table has its  *)
(* own table object, whose cache every fetch_rows overwrites with the rows *)
(* of the backend before a Citation entity reads them. The citation        *)
(* table's source_id and target_id are foreign keys to paper.idpaper.      *)

\* the rows of the citation table S in primary-key order
RECURSIVE citations_sorted(_)
citations_sorted(S) ==
    IF S = {} THEN << >>
    ELSE LET m == CHOOSE r \in S : \A o \in S \ {r} :
                      \/ r.source_id.n < o.source_id.n
                      \/ r.source_id.n = o.source_id.n /\ r.target_id.n < o.target_id.n
         IN  <<m>> \o citations_sorted(S \ {m})

\* Citation.fetch_entities(citation_table, {col: id}): the Citation entities
\* of the rows fetched, each as the row it reads its fields from
citation_fetch_entities(cit, col, id) ==
    citations_sorted({r \in cit : r[col] = id})

\* the tables and objects a property of a Paper works on: the paper table
\* and its backend w, the table's registry reg, the entities constructed ents
Objects(w, reg, ents) == [w |-> w, reg |-> reg, ents |-> ents]

RECURSIVE entities_from_table_rows(_, _, _, _)

\* cls(table=table, row_key=keys[i]) has answered with res
entity_listed(c, res, keys, i, made) ==
    IF res.exc # "" THEN [c |-> [c EXCEPT !.w = res.w], exc |-> res.exc, ret |-> made]
    ELSE entities_from_table_rows(
             Objects(res.w, registered(c.reg, res.e, keys[i], Len(c.ents) + 1),
                     Append(c.ents, res.e)),
             keys, i + 1, Append(made, Len(c.ents) + 1))

\* DBEntity.entities_from_table_rows: [c, exc, ret (the numbers of the
\* entities constructed for the keys from the i-th on, after made)]
entities_from_table_rows(c, keys, i, made) ==
    IF i > Len(keys) THEN [c |-> c, exc |-> "", ret |-> made]
    ELSE entity_listed(c, new_entity(c.w, keys[i], None, FALSE), keys, i, made)

\* no entity: the None that fetch returns
NoEntity == 0

\* DBEntity.fetch, once fetch_entities has answered with listed
first_entity(listed) ==
    [c |-> listed.c, exc |-> listed.exc,
     ret |-> IF listed.exc = "" /\ listed.ret # << >> THEN listed.ret[1] ELSE NoEntity]

\* DBEntity.fetch_entities, once the table has answered fetch_rows with res
entities_fetched(c, res) ==
    IF res.exc # "" THEN [c |-> [c EXCEPT !.w = res.w], exc |-> res.exc, ret |-> << >>]
    ELSE entities_from_table_rows([c EXCEPT !.w = res.w], res.ret, 1, << >>)

\* Paper.fetch(manager, idpaper=idpaper): [c, exc, ret (the number of the
\* Paper, or NoEntity)]
paper_fetch(c, idpaper) ==
    first_entity(entities_fetched(c, fetch_rows(c.w, [idpaper |-> idpaper], TRUE)))

RECURSIVE papers_fetched(_, _, _, _, _)

\* the list comprehension of cited_papers and citing_papers: Paper.fetch has
\* answered with res for the i-th citation
paper_listed(res, citations, i, col, papers) ==
    IF res.exc # "" THEN [c |-> res.c, exc |-> res.exc, ret |-> papers]
    ELSE papers_fetched(res.c, citations, i + 1, col, Append(papers, res.ret))

papers_fetched(c, citations, i, col, papers) ==
    IF i > Len(citations) THEN [c |-> c, exc |-> "", ret |-> papers]
    ELSE paper_listed(paper_fetch(c, citations[i][col]), citations, i, col, papers)

\* the citations fetched by the column of the other end
citations_of_target(cit, idpaper) == citation_fetch_entities(cit, "target_id", idpaper)

\* Paper.cited_papers, line 64: the citations with this paper as the source
citations_of(cit, idpaper) == citation_fetch_entities(cit, "source_id", idpaper)

\* Paper.citing_papers, line 77: the citations with this paper as the target
citations_to(cit, idpaper) == citation_fetch_entities(cit, "target_id", idpaper)

\* Paper.cited_papers, once self.idpaper is read as id
cited_from(c, cit, id) ==
    IF id.exc # "" THEN [c |-> [c EXCEPT !.w = id.w], exc |-> id.exc, ret |-> << >>]
    ELSE IF id.ret = None THEN [c |-> [c EXCEPT !.w = id.w], exc |-> "", ret |-> << >>]
    ELSE papers_fetched([c EXCEPT !.w = id.w], citations_of(cit, id.ret), 1,
                        "target_id", << >>)

\* Paper.cited_papers: [c, exc, ret (the numbers of the Papers of the list)]
cited_papers(c, cit, e) == cited_from(c, cit, get_field(c.w, e, "idpaper"))

\* Paper.citing_papers, once self.idpaper is read as id
citing_from(c, cit, id) ==
    IF id.exc # "" THEN [c |-> [c EXCEPT !.w = id.w], exc |-> id.exc, ret |-> << >>]
    ELSE IF id.ret = None THEN [c |-> [c EXCEPT !.w = id.w], exc |-> "", ret |-> << >>]
    ELSE papers_fetched([c EXCEPT !.w = id.w], citations_to(cit, id.ret), 1,
                        "source_id", << >>)

\* Paper.citing_papers: [c, exc, ret (the numbers of the Papers of the list)]
citing_papers(c, cit, e) == citing_from(c, cit, get_field(c.w, e, "idpaper"))

\* a property of the Paper number n has been read with the result res
PaperRead(op, n, res) ==
    /\ CanCall
    /\ Stored(res.c.w)
    /\ entities' = res.c.ents
    /\ entites' = res.c.reg
    /\ Called(Call(op, [e |-> entities[n]],
                   [w |-> res.c.w, exc |-> res.exc, ret |-> res.ret]))

\* paper.cited_papers
CitedPapers(n) ==
    PaperRead("Paper.cited_papers", n,
              cited_papers(Objects(World, entites, entities), citation, entities[n]))

\* paper.citing_papers
CitingPapers(n) ==
    PaperRead("Paper.citing_papers", n,
              citing_papers(Objects(World, entites, entities), citation, entities[n]))

\* the ids of the papers the backend holds
PaperIds == {r.idpaper : r \in store}

\* a Citation of the paper source to the paper target is saved: the backend
\* takes the row when both papers exist
CitationSaved(source, target) ==
    /\ last = NoCall
    /\ source \in PaperIds /\ target \in PaperIds
    /\ [source_id |-> source, target_id |-> target] \notin citation
    /\ citation' = citation \cup {[source_id |-> source, target_id |-> target]}
    /\ UNCHANGED <<table_name, store, auto_increment, rows, rows_keys, row_status,
                   next_key, handed_out, entites, entities, dbtables, constructed,
                   last, steps>>

\* the rows of a paper table that holds the papers of the ids S
PapersOf(S) == {[idpaper |-> IntV(i), doi |-> None, title |-> StrV("x")] : i \in S}

\* a database with papers and the citations between them, and a table object
\* of the paper table that has cached nothing yet
InitCitation ==
    /\ table_name = "paper"
    /\ \E n \in 0 .. MaxId :
          /\ store = PapersOf(1 .. n)
          /\ citation \in SUBSET [source_id : {IntV(i) : i \in 1 .. n},
                                  target_id : {IntV(i) : i \in 1 .. n}]
    /\ auto_increment = Cardinality(store) + 1
    /\ rows = EmptyDict
    /\ rows_keys = << >>
    /\ row_status = EmptyDict
    /\ next_key = 0
    /\ handed_out = {}
    /\ entites = EmptyDict
    /\ entities = << >>
    /\ dbtables = (table_name :> 1)
    /\ constructed = 1
    /\ last = NoCall
    /\ steps = 0

\* the keys of the rows the backend holds
StoredKeys == {dict_to_key(primary_key_list, r) : r \in store}

\* papers are constructed for stored and for new rows, written to and saved,
\* citations are saved, and the papers' cited and citing papers are read
NextCitation ==
    \/ \E d \in StagedInputs : NewEntity(NoKey, d, FALSE)
    \/ \E k \in StoredKeys : NewEntity(k, None, FALSE)
    \/ \E n \in DOMAIN entities, f \in FieldSet \ PkSet :
          \E v \in WrittenVals(f) : EntitySetField(n, f, v)
    \/ \E n \in DOMAIN entities : EntitySaveToDb(n, SKIP)
    \/ \E s, t \in PaperIds : CitationSaved(s, t)
    \/ \E n \in DOMAIN entities : CitedPapers(n)
    \/ \E n \in DOMAIN entities : CitingPapers(n)
    \/ Return

SpecCitation == InitCitation /\ [][NextCitation]_vars

----------------------------------------------------------------------------
(* The calls a client makes on the manager itself *)

\* a column the caller's dict does not have
Absent == [t |-> "absent", n |-> 0, s |-> ""]

\* the dict with the columns of order, in that order, that choice has a value
\* for
Ordered(order, choice) ==
    SelectSeq([i \in DOMAIN order |-> [col |-> order[i], val |-> choice[order[i]]]],
              LAMBDA p : p.val # Absent)

\* the schema's columns, last to first
Backwards == [i \in DOMAIN fields |-> fields[Len(fields) + 1 - i]]

\* the key values and the texts of the rows given to insert_many_rows
BulkIds == {Absent, None} \cup {IntV(i) : i \in 1 .. MaxId}
BulkTexts == {Absent, StrV(""), StrV("x"), StrV(Str(MaxId))}

\* the dicts of a list given to insert_many_rows: the columns in the order of
\* the schema, or the other way round
BulkDicts ==
    IF table_name = "paper"
    THEN {Ordered(o, [idpaper |-> a, doi |-> b, title |-> c]) :
             o \in {fields, Backwards}, a \in BulkIds, b \in BulkTexts,
             c \in {Absent, StrV("x")}}
    ELSE IF table_name = "author"
    THEN {Ordered(o, [idauthor |-> a, orcid |-> b, email |-> c]) :
             o \in {fields, Backwards}, a \in BulkIds, b \in BulkTexts,
             c \in {Absent, StrV("x")}}
    ELSE {Ordered(o, [source_id |-> a, target_id |-> b]) :
             o \in {fields, Backwards}, a \in BulkIds, b \in BulkIds}

\* the lists given to insert_many_rows
BulkInputs == UNION {[1 .. n -> BulkDicts] : n \in 0 .. MaxBulk}

\* the changes and the filters given to update_rows and delete_rows
UpdateInputs ==
    {EmptyDict, [tile |-> StrV("x")]}
    \cup {(f :> v) : f \in FieldSet \ PkSet, v \in {None, StrV("x"), StrV("y")}}
ManagerWhereInputs == (WhereInputs \ {None}) \cup {[tile |-> StrV("x")]}

\* the error of the backend (a MySQLdb.Error) in what a call raised
BackendError(exc) ==
    IF exc \in {"OperationalError", "ProgrammingError", DUP} THEN exc ELSE ""

\* a call of the manager: what it returned or raised, the backend's error
\* inside it, and the store as it leaves it
CanManage == last = NoCall /\ steps < MaxCalls

ManagerCalled(op, args, exc, ret, err, st, ai) ==
    /\ CanManage
    /\ \A r \in st : \A f \in PkSet : r[f].n <= MaxId
    /\ store' = st
    /\ auto_increment' = ai
    /\ Called([op |-> op, args |-> args, exc |-> exc, ret |-> ret, err |-> err,
               pre |-> [store |-> store, auto_increment |-> auto_increment]])
    /\ UNCHANGED <<table_name, citation, rows, rows_keys, row_status, next_key, handed_out,
                   entites, entities, dbtables, constructed>>

ManagerInsertRow(row_dict) ==
    LET res == manager_insert_row(store, auto_increment, row_dict) IN
    ManagerCalled("DBManager.insert_row", [row_dict |-> row_dict], res.exc, res.ret,
                  BackendError(res.exc), res.st, res.ai)

ManagerInsertManyRows(row_dict_list) ==
    LET res == manager_insert_many_rows(store, auto_increment, row_dict_list) IN
    ManagerCalled("DBManager.insert_many_rows", [row_dict_list |-> row_dict_list],
                  res.exc, res.ret, BackendError(res.exc), res.st, res.ai)

ManagerUpdateRows(row_dict, where_dict) ==
    LET res == manager_update_rows(store, row_dict, where_dict) IN
    ManagerCalled("DBManager.update_rows",
                  [row_dict |-> row_dict, where_dict |-> where_dict],
                  res.exc, res.ok, BackendError(res.exc), res.st, auto_increment)

ManagerDeleteRows(where_dict) ==
    LET res == manager_delete_rows(store, where_dict) IN
    ManagerCalled("DBManager.delete_rows", [where_dict |-> where_dict],
                  res.exc, res.ok, res.err, res.st, auto_increment)

ManagerFetchRows(where_dict) ==
    LET res == manager_fetch_rows(store, where_dict) IN
    ManagerCalled("DBManager.fetch_rows", [where_dict |-> where_dict],
                  res.exc, res.ret, BackendError(res.exc), store, auto_increment)

ManagerTableStructure(name) ==
    LET res == manager_table_structure(name) IN
    ManagerCalled("DBManager.table_structure", [table_name |-> name],
                  res.exc, res.ret, res.err, store, auto_increment)

ManagerListTables(gone) ==
    LET res == manager_list_tables(gone) IN
    ManagerCalled("DBManager.list_tables", EmptyDict,
                  res.exc, res.ret, res.err, store, auto_increment)

\* the servers a manager connects to
Servers == [refused : 0 .. MaxRefusals, unknown : BOOLEAN]

ManagerConnect(credentials, server) ==
    LET res == manager_connect(credentials, server) IN
    ManagerCalled("DBManager._connect", [credentials |-> credentials, server |-> server],
                  res.exc, [db |-> res.db, attempts |-> res.attempts], res.err,
                  store, auto_increment)

\* the manager on its own: it connects, rows are inserted one by one and in
\* bulk, updated, deleted and fetched, and the schema is read
NextManager ==
    \/ CanManage /\ \E c \in BOOLEAN, server \in Servers : ManagerConnect(c, server)
    \/ CanManage /\ \E d \in RowInputs : ManagerInsertRow(d)
    \/ CanManage /\ \E l \in BulkInputs : ManagerInsertManyRows(l)
    \/ CanManage /\ \E d \in UpdateInputs, w \in ManagerWhereInputs :
                        ManagerUpdateRows(d, w)
    \/ CanManage /\ \E w \in ManagerWhereInputs : ManagerDeleteRows(w)
    \/ CanManage /\ \E w \in ManagerWhereInputs : ManagerFetchRows(w)
    \/ CanManage /\ \E name \in {table_name, "nosuch"} : ManagerTableStructure(name)
    \/ CanManage /\ \E gone \in BOOLEAN : ManagerListTables(gone)
    \/ Return

SpecManager == Init /\ [][NextManager]_vars

\* the table objects of a manager: constructed, asked for, and forgotten when
\* the database is reset
InitRegistry ==
    /\ table_name = "paper"
    /\ store = {}
    /\ auto_increment = 1
    /\ rows = EmptyDict
    /\ rows_keys = << >>
    /\ row_status = EmptyDict
    /\ next_key = 0
    /\ handed_out = {}
    /\ entites = EmptyDict
    /\ entities = << >>
    /\ dbtables = EmptyDict
    /\ constructed = 0
    /\ citation = {}
    /\ last = NoCall
    /\ steps = 0

NextRegistry ==
    \/ \E name \in TableNames : NewDBTable(name)
    \/ \E name \in TableNames : GetTableObject(name)
    \/ ResetDatabase
    \/ Return

SpecRegistry == InitRegistry /\ [][NextRegistry]_vars

\* the key codec: a caller holds a primary-key mapping, encodes it and
\* decodes the key
InitCodec ==
    /\ table_name = "paper"
    /\ store = {}
    /\ auto_increment = 1
    /\ rows = EmptyDict
    /\ rows_keys = << >>
    /\ row_status = EmptyDict
    /\ next_key = 0
    /\ handed_out = {}
    /\ entites = EmptyDict
    /\ entities = << >>
    /\ dbtables = (table_name :> 1)
    /\ constructed = 1
    /\ citation = {}
    /\ last \in {[op |-> "key_dict", key_dict |-> d] : d \in KeyDicts}
    /\ steps = 0

NextCodec == DictToKey \/ KeyToDict

SpecCodec == InitCodec /\ [][NextCodec]_vars

----------------------------------------------------------------------------
(* Properties of sync_to_db and of the life of a row *)

\* the rows the cache held with status st when the last call began
HeldAs(st) ==
    {k \in DOMAIN last.pre.rows :
        k \in DOMAIN last.pre.row_status /\ last.pre.row_status[k] = st}

SyncReturned == last.op = "sync_to_db" /\ last.exc = ""

\* C1: a row staged with create_new_row is NEW under a key with the temporary
\* prefix; the next sync_to_db that returns leaves it cached, SYNCED, under a
\* key without the prefix; a set_field on a SYNCED row makes it UNSYNCED; and
\* the next sync_to_db that returns makes it SYNCED again, the cached row
\* with the written values being a row of the store.
C1_RowLifecycle ==
    /\ (last.op = "create_new_row" /\ last.exc = "") =>
           /\ IsTempKey(last.ret)
           /\ last.ret \in DOMAIN rows
           /\ row_status[last.ret] = STATUS_NEW
    /\ SyncReturned =>
           \A k \in HeldAs(STATUS_NEW) :
               /\ k \notin DOMAIN rows
               /\ \E k2 \in DOMAIN rows : ~IsTempKey(k2) /\ row_status[k2] = SYNCED
    /\ (last.op = "set_field" /\ last.exc = "") =>
           (last.args.row_key \in HeldAs(SYNCED) =>
               row_status[last.args.row_key] = UNSYNCED)
    /\ SyncReturned =>
           \A k \in HeldAs(UNSYNCED) :
               /\ k \in DOMAIN rows
               /\ row_status[k] = SYNCED
               /\ rows[k] = last.pre.rows[k]
               /\ rows[k] \in store

\* C2: whenever sync_to_db returns normally, every row still in the cache has
\* status SYNCED.
C2_SyncLeavesAllSynced ==
    SyncReturned =>
        \A k \in DOMAIN rows : k \in DOMAIN row_status /\ row_status[k] = SYNCED

\* the statements of kind q the last call issued
Issued(q) == {i \in 1 .. Len(last.log) : last.log[i].q = q}

\* C3: a sync_to_db that returns has issued an INSERT for every row that was
\* NEW and an UPDATE for every row that was UNSYNCED, wherever the rows sit
\* in the cache, and no INSERT, UPDATE or DELETE for any other row.
C3_SyncProcessesEveryRow ==
    SyncReturned =>
        /\ \A k \in HeldAs(STATUS_NEW) :
              \E i \in Issued("INSERT") : last.log[i].d = last.pre.rows[k]
        /\ \A k \in HeldAs(UNSYNCED) :
              \E i \in Issued("UPDATE") :
                  last.log[i].d = last.pre.rows[k] /\ last.log[i].w = key_to_dict(k)
        /\ Cardinality(Issued("INSERT")) = Cardinality(HeldAs(STATUS_NEW))
        /\ Cardinality(Issued("UPDATE")) = Cardinality(HeldAs(UNSYNCED))
        /\ Issued("DELETE") = {}

----------------------------------------------------------------------------
(* Properties of insert_row and the duplicate policies *)

\* the dict the last insert_row was given, and its value for a column
NewData == last.args.row_dict
NewVal(f) == Get(NewData, f)

\* the last call was an insert_row that met an existing duplicate row: the
\* row and its key
MetDuplicate == last.op = "insert_row" /\ last.res.dups # << >>
OldRow == last.res.dups[1].row
OldKey == last.res.dups[1].key

\* the non-empty primary-key and unique-constrained columns of a dict
KeyedBy(d, kind) == {f \in DOMAIN d : Truthy(d[f]) /\ table_structure[f].key = kind}

\* the last call passed again the fields of an insert_row under SKIP that
\* had returned a key
SkippedTwice ==
    /\ last.op = "insert_row"
    /\ "first" \in DOMAIN last
    /\ last.args.duplicates = SKIP
    /\ last.first.exc = ""

SameKeySameStore ==
    /\ last.exc = ""
    /\ last.ret = last.first.ret
    /\ store = last.pre.store

\* C4 as stated: inserting the same fields twice under SKIP returns the same
\* key both times and leaves the persisted rows as the first insert left them.
C4_SkipTwiceAnyFields == SkippedTwice => SameKeySameStore

\* where C4 holds: the fields carry a non-empty primary-key or
\* unique-constrained value
SkipTwiceKeyed ==
    (SkippedTwice /\ KeyedBy(NewData, "PRI") \cup KeyedBy(NewData, "UNI") # {})
        => SameKeySameStore

\* the row a policy leaves: the store holds a row with these values, and
\* the cache holds it under the returned key
Leaves(expected(_)) ==
    /\ last.exc = ""
    /\ last.ret = OldKey
    /\ \E r \in store : \A f \in FieldSet : r[f] = expected(f)

\* C5: insert_row under INSERT that meets an existing duplicate row returns
\* that row's key, and every field stays the existing value if that was
\* non-empty and becomes the new value if the existing one was empty and the
\* new one is non-empty.
C5_InsertPolicyFillsGaps ==
    (MetDuplicate /\ last.args.duplicates = INSERT) =>
        Leaves(LAMBDA f : IF ~Truthy(OldRow[f]) /\ Truthy(NewVal(f))
                          THEN NewVal(f) ELSE OldRow[f])

\* what OVERWRITE makes of a field
Overwritten(f) == IF Truthy(NewVal(f)) THEN NewVal(f) ELSE OldRow[f]

\* C6 as stated: insert_row under OVERWRITE that meets an existing duplicate
\* row returns that row's key, and every field becomes the new value if that
\* is non-empty and stays the existing value otherwise.
C6_OverwriteAlways ==
    (MetDuplicate /\ last.args.duplicates = OVERWRITE) => Leaves(Overwritten)

\* a row other than the duplicate holds a non-empty unique-constrained value
\* of the new data
HeldElsewhere ==
    \E r \in last.pre.store \ {OldRow} :
        \E f \in KeyedBy(NewData, "UNI") : r[f] = NewData[f]

\* C6: insert_row under OVERWRITE that meets an existing duplicate row returns
\* that row's key, and every field becomes the new value if that is non-empty
\* and stays the existing value otherwise; unless another row holds a
\* unique-constrained value of the new data: then the backend's
\* IntegrityError is raised and no persisted row is changed.
C6_Overwrite ==
    (MetDuplicate /\ last.args.duplicates = OVERWRITE) =>
        IF HeldElsewhere
        THEN last.exc = DUP /\ store = last.pre.store
        ELSE Leaves(Overwritten) /\ rows[last.ret] = [f \in FieldSet |-> Overwritten(f)]

C6_Witness ==
    /\ MetDuplicate
    /\ last.args.duplicates = OVERWRITE
    /\ ~HeldElsewhere
    /\ \E f \in FieldSet : Truthy(NewVal(f)) /\ Truthy(OldRow[f]) /\ NewVal(f) # OldRow[f]
    /\ \E f \in FieldSet : ~Truthy(NewVal(f)) /\ Truthy(OldRow[f])
    /\ store # last.pre.store

\* C7: insert_row under REPLACE that meets an existing duplicate row deletes
\* it and inserts the new data as a fresh row: the call returns the key of a
\* row, in the store and in the cache, that holds the new data and null (the
\* generated key in an auto-increment column) in every field the new data
\* does not have.
C7_ReplaceInsertsFresh ==
    (MetDuplicate /\ last.args.duplicates = REPLACE) =>
        /\ last.exc = ""
        /\ \E i \in Issued("DELETE") : last.log[i].w = key_to_dict(OldKey)
        /\ last.ret \in DOMAIN rows
        /\ rows[last.ret] \in store
        /\ \A f \in FieldSet :
              IF NewVal(f) # None THEN rows[last.ret][f] = NewVal(f)
              ELSE IF f \in AutoFields THEN rows[last.ret][f].t = "int"
              ELSE rows[last.ret][f] = None

\* the rows of st that hold the values of d in the columns cols
Holding(st, d, cols) == {r \in st : \A f \in cols : r[f] = d[f]}

\* the non-empty unique-constrained columns of the new data in the order of
\* the dict, and the first of them some persisted row holds
UniqueSupplied ==
    SelectSeq(Items(NewData), LAMBDA f : f \in KeyedBy(NewData, "UNI"))
HeldAt(i) == Holding(last.pre.store, NewData, {UniqueSupplied[i]}) # {}
FirstHeld == CHOOSE i \in 1 .. Len(UniqueSupplied) :
                 HeldAt(i) /\ \A j \in 1 .. (i - 1) : ~HeldAt(j)

NoRowFound(st, ai, d) ==
    /\ manager_insert_row(st, ai, d).exc = DUP
    /\ KeyedBy(d, "PRI") # {} => Holding(st, d, KeyedBy(d, "PRI")) = {}
    /\ \A f \in KeyedBy(d, "UNI") : Holding(st, d, {f}) = {}

Inserted ==
    /\ last.op = "insert_row"
    /\ last.exc = ""
    /\ (last.res.dups = << >> \/ last.args.duplicates = REPLACE)

Resolved == MetDuplicate /\ last.exc = ""

----------------------------------------------------------------------------
(* The status of a row *)

\* the status changes of the row state machine
AllowedStep(s, t) ==
    <<s, t>> \in {<<STATUS_NEW, SYNCED>>, <<SYNCED, UNSYNCED>>,
                  <<UNSYNCED, SYNCED>>, <<SYNCED, DELETED>>}

\* C12 as stated: the status recorded for a row key changes only along
\* NEW->SYNCED, SYNCED->UNSYNCED, UNSYNCED->SYNCED and SYNCED->DELETED, so
\* that a DELETED row keeps its status for good.
C12_StatusTransitions ==
    [][\A k \in DOMAIN row_status \cap DOMAIN row_status' :
          row_status'[k] # row_status[k] => AllowedStep(row_status[k], row_status'[k])]_vars

\* the last call asked for the row DeleteKey to be deleted, through the table
\* or through an entity of the row
Deleting == last.op \in {"delete_row", "DBEntity.delete_from_db"}
DeleteKey == IF last.op = "delete_row" THEN last.args.row_key ELSE last.args.e.row_key

DeletingNew ==
    /\ Deleting
    /\ DeleteKey \in DOMAIN last.pre.row_status
    /\ last.pre.row_status[DeleteKey] = STATUS_NEW

\* C13 as stated: deleting a NEW row, through DBTable.delete_row or through
\* DBEntity.delete_from_db, raises DBUnsyncedError, leaves the row NEW and
\* issues no backend delete.
C13_DeleteNewRaises ==
    DeletingNew =>
        /\ last.exc = "DBUnsyncedError"
        /\ row_status[DeleteKey] = STATUS_NEW
        /\ Issued("DELETE") = {}

\* the last call wrote a field of the row WriteKey, through the table or
\* through an entity of the row
Writing ==
    \/ last.op = "set_field"
    \/ last.op = "DBEntity.set_field" /\ last.args.field_name \in FieldSet
    \/ last.op = "DBEntity.__setattr__" /\ last.args.attr_name \in FieldSet
WriteKey == IF last.op = "set_field" THEN last.args.row_key ELSE last.args.e.row_key

WritingDeleted ==
    /\ Writing
    /\ WriteKey \in DOMAIN last.pre.rows
    /\ WriteKey \in DOMAIN last.pre.row_status
    /\ last.pre.row_status[WriteKey] = DELETED

\* C14 as stated: a field write to a DELETED row (DBTable.set_field,
\* DBEntity.set_field or attribute assignment) is rejected and the cached
\* values of the row stay as they were.
C14_DeletedRowFrozen ==
    WritingDeleted =>
        /\ last.exc # ""
        /\ rows[WriteKey] = last.pre.rows[WriteKey]

----------------------------------------------------------------------------
(* The key codec *)

\* the mapping a key dict stands for
AsDict(key_dict) ==
    [c \in {key_dict[i].col : i \in DOMAIN key_dict} |->
        key_dict[CHOOSE i \in DOMAIN key_dict : key_dict[i].col = c].val]

\* the key of the mapping has been decoded again
Decoded == last.op = "key_to_dict"

RoundTrip == last.exc = "" /\ last.ret = AsDict(last.key_dict)

\* a string that does not hold the delimiter and is not made of digits only
NoDelimiterNoNumber(v) ==
    v.t = "str" => DelimiterAt(v.s) = {} /\ int_or_str(v.s).t = "str"

\* C15 as stated, with a plain string read as one that does not hold the
\* delimiter and is not made of digits only: key_to_dict(dict_to_key(d)) = d
\* for every mapping d of integers and plain strings.
C15_RoundTripPlainStrings ==
    (Decoded /\ \A i \in DOMAIN last.key_dict : NoDelimiterNoNumber(last.key_dict[i].val))
        => RoundTrip

\* a string without the character of the delimiter that int() rejects
NoPercentNoNumber(v) ==
    v.t = "str" => (\A i \in DOMAIN v.s : v.s[i] # "%") /\ int_or_str(v.s).t = "str"

\* C15, amended: key_to_dict(dict_to_key(d)) = d, each value at its type,
\* for every mapping d whose values are integers or strings that hold no
\* "%" and that int() rejects.
C15_KeyRoundTrip ==
    (Decoded /\ \A i \in DOMAIN last.key_dict : NoPercentNoNumber(last.key_dict[i].val))
        => RoundTrip

\* ... for two columns, an integer and a string
C15_Witness ==
    /\ Decoded
    /\ Len(last.key_dict) = 2
    /\ last.key_dict[1].val = IntV(MaxKeyInt)
    /\ last.key_dict[2].val = StrV(<<"a", "a">>)
    /\ RoundTrip

----------------------------------------------------------------------------
(* Temporary keys *)

\* the last call was a create_new_row that returned a key
Created == last.op = "create_new_row" /\ last.exc = ""

\* C16: every key create_new_row returns has the temporary prefix and is none
\* of the keys it returned before, and no call of any method lowers the
\* counter.
C16_NewKeysFresh ==
    /\ last # NoCall => next_key >= last.pre.next_key
    /\ Created =>
          /\ IsTempKey(last.ret)
          /\ last.ret \notin last.pre.handed_out
          /\ next_key > last.pre.next_key

\* ... a key returned after the row of an earlier key was synced
C16_Witness ==
    /\ Created
    /\ \E k \in last.pre.handed_out : k \notin DOMAIN last.pre.rows
    /\ last.ret \notin last.pre.handed_out

----------------------------------------------------------------------------
(* The registry of table objects *)

\* the last call named a table that had a registered table object
NamedRegistered(op) ==
    /\ last.op = op
    /\ last.name \in DOMAIN last.pre.dbtables

----------------------------------------------------------------------------
(* Entities *)

\* the last call was a save_to_db that returned; the entity's key afterwards
Saved == last.op = "DBEntity.save_to_db" /\ last.exc = ""
SavedKey == last.res.e.row_key

\* C18 as stated: after save_to_db returns, the entity's row_key is a
\* persisted key (the key of a persisted row) without the temporary prefix
\* and names a cached row with status SYNCED.
C18_SavedEntityKey ==
    Saved =>
        /\ ~IsTempKey(SavedKey)
        /\ SavedKey \in DOMAIN rows
        /\ SavedKey \in DOMAIN row_status
        /\ row_status[SavedKey] = SYNCED
        /\ \E r \in store : Matches(r, key_to_dict(SavedKey))

\* the last call wrote the value WriteValue to the field WriteField of an
\* entity, by set_field or by attribute assignment
EntityWriting == last.op \in {"DBEntity.set_field", "DBEntity.__setattr__"}
WriteField == IF last.op = "DBEntity.set_field" THEN last.args.field_name
              ELSE last.args.attr_name
WriteValue == IF last.op = "DBEntity.set_field" THEN last.args.field_value
              ELSE last.args.value

\* ... to a field of a cached row, with protect_fields set
ProtectedWriting ==
    /\ EntityWriting
    /\ WriteField \in FieldSet
    /\ last.args.e.protect_fields
    /\ WriteKey \in DOMAIN last.pre.rows
    /\ last.pre.rows[WriteKey] # None

\* C19 as stated: with protect_fields set, a write by attribute assignment or
\* by set_field to a field that holds a non-null value is silently dropped
\* (cached rows and statuses unchanged), and a write to a field that holds
\* null is applied.
C19_ProtectFields ==
    ProtectedWriting =>
        /\ last.exc = ""
        /\ IF Get(last.pre.rows[WriteKey], WriteField) # None
           THEN rows = last.pre.rows /\ row_status = last.pre.row_status
           ELSE Get(rows[WriteKey], WriteField) = WriteValue

\* C20 as stated: a write through an entity (set_field or attribute
\* assignment) to a name that is no field of the table raises an exception
\* and changes neither the cached rows nor their statuses.
C20_UnknownFieldRejected ==
    (EntityWriting /\ WriteField \notin FieldSet /\ WriteField # "protect_fields") =>
        /\ last.exc # ""
        /\ rows = last.pre.rows
        /\ row_status = last.pre.row_status


----------------------------------------------------------------------------
(* DBEntity.append *)

\* a.append(b, overwrite) has returned
Appended == last.op = "DBEntity.append" /\ last.exc = ""

\* the rows of a and of b as the call found them
RowOfA == get_row_by_key(last.pre, last.args.e.row_key).ret
RowOfB ==
    LET row == get_row_by_key(last.pre, last.args.other.row_key) IN
    IF row.exc = "" /\ row.ret # None THEN row.ret ELSE EmptyDict

\* the row of a as the call left it
RowOfANow == rows[last.args.e.row_key]

\* C21: after a.append(b) with overwrite false every field of a that was
\* non-null is unchanged and every field that was null in a and non-null in b
\* holds b's value; with overwrite true every field that is non-null in b
\* holds b's value; in both cases no field of a becomes null and b's row is
\* unchanged
C21_AppendMerges ==
    Appended =>
        /\ \A f \in FieldSet :
              /\ (~last.args.overwrite /\ Get(RowOfA, f) # None)
                     => Get(RowOfANow, f) = Get(RowOfA, f)
              /\ (~last.args.overwrite /\ Get(RowOfA, f) = None
                                       /\ Get(RowOfB, f) # None)
                     => Get(RowOfANow, f) = Get(RowOfB, f)
              /\ (last.args.overwrite /\ Get(RowOfB, f) # None)
                     => Get(RowOfANow, f) = Get(RowOfB, f)
              /\ Get(RowOfA, f) # None => Get(RowOfANow, f) # None
        /\ last.args.other.row_key \in DOMAIN last.pre.rows
              => rows[last.args.other.row_key]
                     = last.pre.rows[last.args.other.row_key]
        /\ store = last.pre.store

\* an append without overwrite that fills a null field of a from another row
\* and meets a field on which the two rows differ
C21_Witness ==
    /\ Appended
    /\ ~last.args.overwrite
    /\ last.args.e.row_key # last.args.other.row_key
    /\ \E f \in FieldSet : Get(RowOfA, f) = None /\ Get(RowOfB, f) # None
    /\ \E f \in FieldSet : /\ Get(RowOfA, f) # None /\ Get(RowOfB, f) # None
                           /\ Get(RowOfA, f) # Get(RowOfB, f)

----------------------------------------------------------------------------
(* DBTable.insert_many_new_rows *)

\* insert_many_new_rows has returned True
ManyInserted == last.op = "insert_many_new_rows" /\ last.exc = "" /\ last.ret = TRUE

\* the keys of the rows that were NEW when the call began
FormerlyNew == {k \in DOMAIN last.pre.row_status : last.pre.row_status[k] = STATUS_NEW}

\* the rows the call has persisted
Persisted == store \ last.pre.store

\* the row r is cached SYNCED under the key of its primary key, as the dict
\* of a formerly NEW row with the primary key filled in
CachedUnderOwnKey(r) ==
    LET key == dict_to_key(primary_key_list, r) IN
    /\ key \in DOMAIN rows
    /\ key \in DOMAIN row_status
    /\ row_status[key] = SYNCED
    /\ \A f \in PkSet : Get(rows[key], f) = r[f]
    /\ \E k \in FormerlyNew :
          \A f \in FieldSet : Get(last.pre.rows[k], f) # None
                                 => Get(rows[key], f) = Get(last.pre.rows[k], f)

\* C22: after insert_many_new_rows succeeds no row with status NEW and no
\* temporary key remains in rows or row_status, and each formerly NEW row is
\* cached with status SYNCED under the key encoded from its persisted primary
\* key
C22_BulkInsertLeavesNoNew ==
    ManyInserted =>
        /\ \A k \in DOMAIN row_status : row_status[k] # STATUS_NEW
        /\ \A k \in DOMAIN rows \cup DOMAIN row_status : ~IsTempKey(k)
        /\ Cardinality(Persisted) = Cardinality(FormerlyNew)
        /\ \A r \in Persisted : CachedUnderOwnKey(r)

----------------------------------------------------------------------------
(* A sync_to_db that fails partway, and the sync_to_db after it *)

\* sync_to_db has raised
SyncFailed == last.op = "sync_to_db" /\ last.exc # ""

\* sync_to_db run again on the table object as the failure left it
SyncAgain == sync_to_db(World)

\* C23: if sync_to_db fails partway, the rows handled before the failure are
\* SYNCED and the remaining rows keep their status, and running sync_to_db
\* again completes the sync (it returns and leaves every cached row SYNCED)
\* without persisting any row a second time
C23_FailedSyncResumes ==
    SyncFailed =>
        /\ \A k \in DOMAIN rows :
              k \in DOMAIN last.pre.rows =>
                  \/ row_status[k] = SYNCED
                  \/ row_status[k] = last.pre.row_status[k]
        /\ SyncAgain.exc = ""
        /\ \A k \in DOMAIN SyncAgain.w.rows :
              /\ k \in DOMAIN SyncAgain.w.row_status
              /\ SyncAgain.w.row_status[k] = SYNCED
        /\ Cardinality(SyncAgain.w.store \ last.pre.store)
               <= Cardinality(HeldAs(STATUS_NEW))

----------------------------------------------------------------------------
(* Properties of the manager's own operations *)

ManagerOps == {"DBManager.insert_row", "DBManager.insert_many_rows",
               "DBManager.update_rows", "DBManager.delete_rows",
               "DBManager.fetch_rows", "DBManager.table_structure",
               "DBManager.list_tables"}

\* the backend has raised an error inside the last call of the manager
BackendFailed == last.op \in ManagerOps /\ last.err # ""

\* C24: every backend error raised inside an operation of the manager reaches
\* the caller as an exception: no operation turns it into a normal return
\* value
C24_BackendErrorsPropagate == BackendFailed => last.exc = last.err

\* the last call was a write of the manager that failed
WriteFailed ==
    /\ last.op \in {"DBManager.insert_row", "DBManager.insert_many_rows",
                    "DBManager.update_rows", "DBManager.delete_rows"}
    /\ (last.exc # "" \/ last.err # "")

\* C25: if an insert, update, delete or bulk insert of the manager fails, the
\* store is exactly as it was before the call
C25_FailedWriteLeavesStore == WriteFailed => store = last.pre.store

\* a bulk insert whose second row is a duplicate while its first row alone
\* would have been inserted
C25_Witness ==
    /\ WriteFailed
    /\ last.op = "DBManager.insert_many_rows"
    /\ last.exc = DUP
    /\ Len(last.args.row_dict_list) = 2
    /\ manager_insert_many_rows(last.pre.store, last.pre.auto_increment,
                                <<last.args.row_dict_list[1]>>).exc = ""

\* update_rows has been called
Updating == last.op = "DBManager.update_rows"

\* C26: update_rows returns true exactly when at least one row matched the
\* filter, and when the changes mapping is empty it returns false without
\* issuing any statement and without raising
C26_UpdateReportsMatch ==
    Updating =>
        /\ last.args.row_dict = EmptyDict =>
              last.exc = "" /\ last.ret = FALSE /\ store = last.pre.store
        /\ (last.args.row_dict # EmptyDict /\ last.exc = "") =>
              last.ret = (\E r \in last.pre.store : Matches(r, last.args.where_dict))

\* insert_many_rows has returned
BulkReturned == last.op = "DBManager.insert_many_rows" /\ last.exc = ""

\* the i-th row given lacks a primary key the table would generate
Lacking(i) ==
    pri_key_field # "" /\ Lookup(last.args.row_dict_list[i], pri_key_field) = None

\* the insert has put a row into the store under the primary key the i-th
\* returned row carries
PersistedAsReturned(i) ==
    \E r \in store \ last.pre.store :
        \A f \in PkSet : r[f] = Lookup(last.ret[i], f)

\* C27: insert_many_rows gives the rows that lack a primary key the
\* consecutive values c, c+1, ... in list order, c being the auto-increment
\* counter before the insert, leaves supplied primary keys unchanged, and
\* every row is persisted under exactly the key the returned row carries
C27_BulkKeysConsecutive ==
    BulkReturned =>
        \A i \in DOMAIN last.args.row_dict_list :
            /\ Lacking(i) =>
                  Lookup(last.ret[i], pri_key_field)
                      = IntV(last.pre.auto_increment
                             + Cardinality({j \in 1 .. i - 1 : Lacking(j)}))
            /\ (pri_key_field # "" /\ ~Lacking(i)) =>
                  Lookup(last.ret[i], pri_key_field)
                      = Lookup(last.args.row_dict_list[i], pri_key_field)
            /\ PersistedAsReturned(i)

\* _connect has been called with the user, the password and the name set
C28_Tried == last.op = "DBManager._connect" /\ last.args.credentials

\* C28: a refused connection is tried again at once until MAX_DB_RETRIES
\* attempts have been made: a server that accepts within the bound is
\* connected to, and when every attempt of the bound was refused the backend's
\* error reaches the caller
C28_ConnectRetries ==
    (C28_Tried /\ ~last.args.server.unknown) =>
        IF last.args.server.refused < MAX_DB_RETRIES
        THEN /\ last.exc = ""
             /\ last.ret.db = "open"
             /\ last.ret.attempts = last.args.server.refused + 1
        ELSE /\ last.exc = "OperationalError"
             /\ last.ret.db = "None"
             /\ last.ret.attempts = MAX_DB_RETRIES

----------------------------------------------------------------------------
(* The table's registry of entities *)

\* an entity has been constructed by the last call
Constructed == last.op = "DBEntity" /\ last.exc = ""

\* the entity the last call constructed
TheEntity == entities[Len(entities)]

\* the registry maps row_key to an entity of that row
Registers(row_key) ==
    /\ row_key \in DOMAIN entites
    /\ entities[entites[row_key]].row_key = row_key

\* C29: after an entity is constructed, for an existing key or for a newly
\* staged row, the table's registry maps the entity's own row_key to an
\* entity of that row
C29_EntityRegistered == Constructed => Registers(TheEntity.row_key)

----------------------------------------------------------------------------
(* The papers a paper cites and is cited by *)

\* cited_papers or citing_papers of a paper has returned a list
PapersListed ==
    last.op \in {"Paper.cited_papers", "Paper.citing_papers"} /\ last.exc = ""

\* the idpaper the paper had when the property was read
IdRead == get_field(last.pre, last.args.e, "idpaper").ret

\* the ids at the other end of the citation rows that have id at this end
CitedBy(id) == {r.target_id : r \in {c \in citation : c.source_id = id}}
CitingOf(id) == {r.source_id : r \in {c \in citation : c.target_id = id}}
Linked(id) == IF last.op = "Paper.cited_papers" THEN CitedBy(id) ELSE CitingOf(id)

\* the idpaper of the i-th Paper of the list returned
ListedId(i) == rows[entities[last.ret[i]].row_key].idpaper

\* C30: for a paper with an id, cited_papers is exactly the Paper entities
\* of the ids that are target_id of a citation row whose source_id is the
\* paper's idpaper, each once, and citing_papers the same with source and
\* target swapped; for a paper that has no id yet both are empty
C30_CitedAndCitingPapers ==
    PapersListed =>
        IF IdRead = None THEN last.ret = << >>
        ELSE /\ \A i \in DOMAIN last.ret : last.ret[i] # NoEntity
             /\ {ListedId(i) : i \in DOMAIN last.ret} = Linked(IdRead)
             /\ Len(last.ret) = Cardinality(Linked(IdRead))

\* cited_papers has returned two papers, one of them the paper itself
C30_Witness ==
    /\ last.op = "Paper.cited_papers"
    /\ last.exc = ""
    /\ Len(last.ret) = 2
    /\ IdRead \in CitedBy(IdRead)

----------------------------------------------------------------------------
(* Written values and the sync that follows them *)

\* the values the row under k held, written ones included, when the last
\* call began
Written(k, f) == Get(last.pre.rows[k], f)

\* the cache holds the row under k with the values it had when the call began
CacheKeeps(k) == k \in DOMAIN rows /\ \A f \in FieldSet : Get(rows[k], f) = Written(k, f)

\* the store holds a row with the values the row under k had when the call
\* began
StoreKeeps(k) == \E r \in store : \A f \in FieldSet : r[f] = Written(k, f)

\* C31: a value written with set_field to a persisted row is not lost: after
\* the next sync_to_db that returns normally the store and the cache both
\* hold the row with the written values, also when the row was persisted by
\* save_to_db and NEW rows are pending in the table
C31_WrittenValueKept ==
    SyncReturned => \A k \in HeldAs(UNSYNCED) : CacheKeeps(k) /\ StoreKeeps(k)

----------------------------------------------------------------------------
(* Staged rows of entities that save_to_db has persisted *)

\* the rows still staged as NEW when the last call began whose entity has
\* been saved: no entity goes by the temporary key any more
SavedStaged == {k \in HeldAs(STATUS_NEW) : \A n \in DOMAIN entities : entities[n].row_key # k}

\* C32: an entity staged as a NEW row and persisted with save_to_db is not
\* persisted again by a later sync_to_db: the sync adds no row to the store
\* for the staged row of a saved entity, only for the other NEW rows
C32_SavedNotPersistedAgain ==
    last.op = "sync_to_db" =>
        Cardinality(store) <= Cardinality(last.pre.store)
                                  + Cardinality(HeldAs(STATUS_NEW) \ SavedStaged)

----------------------------------------------------------------------------
(* The cache against the store *)

\* the store holds the row cached under k, under that key and field for field
StoredAsCached(k) ==
    \E r \in store :
        /\ dict_to_key(primary_key_list, r) = k
        /\ \A f \in FieldSet : r[f] = Get(rows[k], f)

\* C33: with a single writer every cached row whose status is SYNCED has,
\* field for field, the values of the persisted row with that key
C33_SyncedMatchesStore ==
    \A k \in DOMAIN rows :
        (k \in DOMAIN row_status /\ row_status[k] = SYNCED) => StoredAsCached(k)

\* C34: rows and row_status have the same key set: every cached row has a
\* status and every status belongs to a cached row
C34_RowsAndStatusParallel == DOMAIN rows = DOMAIN row_status

----------------------------------------------------------------------------
(* Entities of staged rows, once the table has promoted the rows *)

\* the entities that went by the key of a NEW row when the last call began
OfStaged == {n \in DOMAIN entities : entities[n].row_key \in HeldAs(STATUS_NEW)}

\* C35: an entity created for a NEW row can still read its fields after the
\* table has promoted the row with sync_to_db: the entity's row_key names a
\* row of the cache
C35_EntityOutlivesPromotion ==
    SyncReturned =>
        \A n \in OfStaged :
            /\ entities[n].row_key \in DOMAIN rows
            /\ get_field(World, entities[n], fields[1]).exc = ""

----------------------------------------------------------------------------
(* insert_row under REPLACE, invocation by invocation *)

\* a call of insert_row under REPLACE, running or done
Replacing == last.op = "insert_row" /\ "reentries" \in DOMAIN last

\* the rows the store held when the call began that the new data collides
\* with: the same primary key, or the same value in a unique column
Colliding ==
    {r \in last.pre.store :
        \/ \A f \in PkSet : r[f] = Get(last.args.row_dict, f)
        \/ \E f \in FieldSet : /\ table_structure[f].key = "UNI"
                               /\ Get(last.args.row_dict, f) # None
                               /\ r[f] = Get(last.args.row_dict, f)}

\* C36: insert_row under REPLACE terminates: it calls itself again at most
\* once per existing row the new data collides with, also when the backend's
\* delete of the existing row removes nothing or fails
C36_ReplaceTerminates == Replacing => last.reentries <= Cardinality(Colliding)

----------------------------------------------------------------------------
(* insert_many_new_rows that fails *)

\* insert_many_new_rows has raised the backend's IntegrityError
ManyRefused == last.op = "insert_many_new_rows" /\ last.exc = DUP

\* C37: when insert_many_new_rows fails because the batch violates a
\* constraint, the cache is as before the call: the same rows under the same
\* temporary keys with the same field values, every one of them still NEW
C37_FailedBatchKeepsCache ==
    ManyRefused =>
        /\ rows = last.pre.rows
        /\ rows_keys = last.pre.rows_keys
        /\ row_status = last.pre.row_status

----------------------------------------------------------------------------
(* Writes that stay in the cache *)

\* the operations that stage a row or write a field; the constructor without
\* a row key is create_new_row
CacheOnly ==
    \/ last.op \in {"create_new_row", "set_field", "DBEntity.set_field",
                    "DBEntity.__setattr__", "DBEntity.append"}
    \/ last.op = "DBEntity" /\ last.args.row_key = NoKey

\* a set_field of the table or of an entity that has returned, and its row
FieldSet_Returned == last.op \in {"set_field", "DBEntity.set_field"} /\ last.exc = ""
WrittenKey == IF last.op = "set_field" THEN last.args.row_key ELSE last.args.e.row_key

\* C38: create_new_row, set_field, the field writes of an entity and append
\* change the cache only, the store is as before the call; a set_field that
\* returns has turned a SYNCED row UNSYNCED and has left a NEW or UNSYNCED row
\* its status
C38_WritesStayInCache ==
    /\ CacheOnly => store = last.pre.store /\ auto_increment = last.pre.auto_increment
    /\ FieldSet_Returned =>
          /\ WrittenKey \in HeldAs(SYNCED) => row_status[WrittenKey] = UNSYNCED
          /\ WrittenKey \in HeldAs(STATUS_NEW) => row_status[WrittenKey] = STATUS_NEW
          /\ WrittenKey \in HeldAs(UNSYNCED) => row_status[WrittenKey] = UNSYNCED

\* an entity has written a new value to a SYNCED row of a store with rows
C38_Witness ==
    /\ last.op = "DBEntity.set_field" /\ last.exc = ""
    /\ WrittenKey \in HeldAs(SYNCED)
    /\ rows[WrittenKey] # last.pre.rows[WrittenKey]
    /\ store # {}

----------------------------------------------------------------------------
(* DBEntity.undelete *)

\* undelete was called on an entity whose row had the status st
UndeleteOf(st) == last.op = "DBEntity.undelete" /\ last.args.e.row_key \in HeldAs(st)

\* the entity's row_key after the call, and the row of the store it names
RestoredKey == last.res.e.row_key
RestoredRow(r) == dict_to_key(primary_key_list, r) = RestoredKey

\* C39: undelete on a row whose status is not DELETED raises DBIntegrityError
\* and changes neither cache nor store; on a DELETED row it persists the row
\* again, and the entity's row_key names a cached row with status SYNCED
C39_UndeleteRestores ==
    /\ (UndeleteOf(STATUS_NEW) \/ UndeleteOf(SYNCED) \/ UndeleteOf(UNSYNCED)) =>
          /\ last.exc = "DBIntegrityError"
          /\ rows = last.pre.rows /\ rows_keys = last.pre.rows_keys
          /\ row_status = last.pre.row_status
          /\ store = last.pre.store
    /\ UndeleteOf(DELETED) =>
          /\ last.exc = ""
          /\ \E r \in store : RestoredRow(r)
          /\ RestoredKey \in DOMAIN rows
          /\ RestoredKey \in DOMAIN row_status /\ row_status[RestoredKey] = SYNCED

----------------------------------------------------------------------------
(* DBTable.fetch_rows *)

\* fetch_rows has returned a mapping
Fetched == last.op = "fetch_rows" /\ last.exc = ""

\* the keys of the mapping fetch_rows returned
ReturnedKeys == {last.ret[i] : i \in DOMAIN last.ret}

\* the row cached under k is a row of the store with k encoded from its
\* primary-key columns
CachedFromStore(k) ==
    /\ k \in DOMAIN rows
    /\ \E r \in store : dict_to_key(primary_key_list, r) = k /\ rows[k] = r

\* the cached row k and its status are as before the call
LeftAsCached(k) ==
    /\ k \in DOMAIN rows /\ rows[k] = last.pre.rows[k]
    /\ k \in DOMAIN row_status <=> k \in DOMAIN last.pre.row_status
    /\ k \in DOMAIN row_status => row_status[k] = last.pre.row_status[k]

\* C40: fetch_rows caches every row it returns under the key encoded from the
\* row's primary-key columns, with status SYNCED; with overwrite false a row
\* whose key is already cached is not replaced, keeps its status and is not
\* in the returned mapping
C40_FetchCachesReturned ==
    Fetched =>
        /\ \A k \in ReturnedKeys :
              /\ CachedFromStore(k)
              /\ k \in DOMAIN row_status /\ row_status[k] = SYNCED
        /\ ~last.args.overwrite =>
              \A k \in DOMAIN last.pre.rows : LeftAsCached(k) /\ k \notin ReturnedKeys

\* a fetch with overwrite false has skipped a cached row that differs from
\* the row of the store with its key
C40_Witness ==
    /\ Fetched /\ ~last.args.overwrite
    /\ \E k \in DOMAIN last.pre.rows :
          \E r \in store : dict_to_key(primary_key_list, r) = k /\ rows[k] # r
====
